---- MODULE Spec2Model ----
(***************************************************************************)
(* A model of the kindness-story board (src/app.py): the three tables      *)
(* stories, tags and story_tags, the per-visitor session, and the request  *)
(* handlers submit_story, admin_panel, admin_logout, like_story and index. *)
(* Text is a sequence of one-character strings, so that strip, split,      *)
(* lower, count and ILIKE are computed as the code computes them.          *)
(***************************************************************************)
EXTENDS Integers, Sequences, FiniteSets, Bags, TLC

VARIABLES
    stories,          \* table stories: id -> row
    tags,             \* table tags: id -> name
    story_tags,       \* table story_tags: a bag of <<story_id, tag_id>> rows
    stories_id_seq,   \* last value of the SERIAL sequence of stories.id
    tags_id_seq,      \* last value of the SERIAL sequence of tags.id
    session,          \* per visitor: the is_admin flag and liked_stories
    now,              \* datetime.utcnow() in whole seconds
    last,             \* the request handled last and its response
    tx,               \* submit requests in flight (transaction specification)
    listing,          \* the page GET / rendered last (search specification)
    call              \* the function call under study: its input, progress and result

vars == <<stories, tags, story_tags, stories_id_seq, tags_id_seq, session, now, last, tx,
          listing, call>>

db == <<stories, tags, story_tags, stories_id_seq, tags_id_seq>>

----------------------------------------------------------------------------
(* Bounds of the model. *)

MaxStoryId == 2
MaxTagId == 2
MaxClock == 1

Sessions == {"s1", "s2"}

ADMIN_PASSWORD == "miki_the_best_vb_player"

----------------------------------------------------------------------------
(* Text. *)

IsSpace(c) == c \in {" ", "\t", "\n"}

Lower(c) == IF c = "A" THEN "a" ELSE IF c = "B" THEN "b" ELSE c

LowerStr(s) == [i \in 1..Len(s) |-> Lower(s[i])]

RECURSIVE LStrip(_)
LStrip(s) == IF s # <<>> /\ IsSpace(Head(s)) THEN LStrip(Tail(s)) ELSE s

RECURSIVE RStrip(_)
RStrip(s) == IF s # <<>> /\ IsSpace(s[Len(s)]) THEN RStrip(SubSeq(s, 1, Len(s) - 1)) ELSE s

\* str.strip()
Strip(s) == RStrip(LStrip(s))

\* re.search(r"\s", name)
HasSpace(s) == \E i \in 1..Len(s) : IsSpace(s[i])

\* haystack[i..] starts with needle
StartsWithAt(hay, needle, i) ==
    /\ i + Len(needle) - 1 <= Len(hay)
    /\ \A j \in 1..Len(needle) : hay[i + j - 1] = needle[j]

\* str.count(needle) for a non-empty needle: non-overlapping, scanning from the left
RECURSIVE CountFrom(_, _, _)
CountFrom(hay, needle, i) ==
    IF i + Len(needle) - 1 > Len(hay) THEN 0
    ELSE IF StartsWithAt(hay, needle, i) THEN 1 + CountFrom(hay, needle, i + Len(needle))
    ELSE CountFrom(hay, needle, i + 1)

Count(hay, needle) == CountFrom(hay, needle, 1)

\* text ILIKE pattern: % matches any run, _ any one character, the rest case-insensitively
RECURSIVE ILike(_, _)
ILike(s, p) ==
    IF p = <<>> THEN s = <<>>
    ELSE IF Head(p) = "%" THEN ILike(s, Tail(p)) \/ (s # <<>> /\ ILike(Tail(s), p))
    ELSE /\ s # <<>>
         /\ (Head(p) = "_" \/ Lower(Head(p)) = Lower(Head(s)))
         /\ ILike(Tail(s), Tail(p))

----------------------------------------------------------------------------
(* Tag utilities. *)

IsSep(c) == c = "," \/ IsSpace(c)

\* re.split(r"[,\s]+", raw) with the empty chunks dropped: cur is the chunk being read
RECURSIVE SplitPieces(_, _)
SplitPieces(raw, cur) ==
    IF raw = <<>> THEN (IF cur = <<>> THEN <<>> ELSE <<cur>>)
    ELSE IF IsSep(Head(raw))
         THEN (IF cur = <<>> THEN <<>> ELSE <<cur>>) \o SplitPieces(Tail(raw), <<>>)
         ELSE SplitPieces(Tail(raw), Append(cur, Head(raw)))

InSeq(x, s) == \E i \in 1..Len(s) : s[i] = x

\* (mutant) every piece is kept
FirstSeenKeepAll(pieces, seen) == seen \o pieces

\* the first-seen loop: append a piece unless it is already in seen
RECURSIVE FirstSeen(_, _)
FirstSeen(pieces, seen) ==
    IF pieces = <<>> THEN seen
    ELSE FirstSeen(Tail(pieces),
                   IF InSeq(Head(pieces), seen) THEN seen ELSE Append(seen, Head(pieces)))

parse_new_tag_names(raw) ==
    IF raw = <<>> THEN <<>> ELSE FirstSeen(SplitPieces(raw, <<>>), <<>>)

----------------------------------------------------------------------------
(* Values of request fields. *)

None == <<>>
Some(n) == <<n>>

\* One value of the form field "tags" as the browser sends it (a string). kind
\* says which string it stands for: "plain" is ASCII digits ("2"), "padded" is
\* digits with white space around (" 2"), "super" is a superscript digit, "word"
\* is letters. int() accepts plain and padded; str.isdigit() accepts plain and super.
FormId(kind, n) == [kind |-> kind, n |-> n]

IntOk(v) == v.kind \in {"plain", "padded"}

IsDigit(v) == v.kind \in {"plain", "super"}

\* the loop "for tag_id in selected_ids: try int(tag_id) except continue"
RECURSIVE CoerceIds(_)
CoerceIds(selected) ==
    IF selected = <<>> THEN <<>>
    ELSE (IF IntOk(Head(selected)) THEN <<Head(selected).n>> ELSE <<>>)
         \o CoerceIds(Tail(selected))

\* [int(t) for t in selected_tag_ids if t.isdigit()] raises ValueError on a
\* value that isdigit() accepts and int() does not
FormIdsRaise(selected) ==
    \E i \in 1..Len(selected) : IsDigit(selected[i]) /\ ~IntOk(selected[i])

----------------------------------------------------------------------------
(* The tables and their constraints. *)

\* the row submit_story inserts. The columns created_at and image_path are left
\* out: they are written here and read by no handler's decision.
StoryRow(name, title, body, t) ==
    [name |-> name, title |-> title, body |-> body, likes |-> 0,
     updated_at |-> t, is_approved |-> 0]

\* SELECT id FROM tags WHERE name = %s
TagIdsNamed(tg, name) == {id \in DOMAIN tg : tg[id] = name}

\* (mutant) the column without UNIQUE
NameNotUnique(tg, name) == FALSE

\* name TEXT NOT NULL UNIQUE: a row of tg stands in the way of a new row with name
NameTaken(tg, name) == \E id \in DOMAIN tg : tg[id] = name

\* INSERT INTO tags (name, ...) RETURNING id: nextval is taken before the
\* UNIQUE(name) index is checked
InsertTag(tg, seq, name) ==
    IF NameTaken(tg, name)
    THEN [ok |-> FALSE, tags |-> tg, seq |-> seq + 1, id |-> 0]
    ELSE [ok |-> TRUE, tags |-> tg @@ ((seq + 1) :> name), seq |-> seq + 1, id |-> seq + 1]

\* the loop over new_tag_names; acc is [ok, tags, seq, ids]
RECURSIVE ResolveNames(_, _)
ResolveNames(names, acc) ==
    IF names = <<>> \/ ~acc.ok THEN acc
    ELSE LET existing == TagIdsNamed(acc.tags, Head(names))
             ins == InsertTag(acc.tags, acc.seq, Head(names))
         IN  IF existing # {}
             THEN ResolveNames(Tail(names),
                      [acc EXCEPT !.ids = Append(@, CHOOSE id \in existing : TRUE)])
             ELSE ResolveNames(Tail(names),
                      [ok |-> ins.ok, tags |-> ins.tags, seq |-> ins.seq,
                       ids |-> IF ins.ok THEN Append(acc.ids, ins.id) ELSE acc.ids])

\* unique_ids: the first-seen loop over tag_ids
UniqueIds(ids) == FirstSeen(ids, <<>>)

ensure_tag_ids(tg, seq, selected, names) ==
    LET r == ResolveNames(names, [ok |-> TRUE, tags |-> tg, seq |-> seq,
                                  ids |-> CoerceIds(selected)])
    IN  [ok |-> r.ok, tags |-> r.tags, seq |-> r.seq, ids |-> UniqueIds(r.ids)]

Range(s) == {s[i] : i \in 1..Len(s)}

RowsOfStory(st, sid) == {r \in BagToSet(st) : r[1] = sid}

RowsOfTag(st, tid) == {r \in BagToSet(st) : r[2] = tid}

\* a bag without the rows of the set gone
WithoutRows(st, gone) == [r \in BagToSet(st) \ gone |-> st[r]]

\* executemany INSERT INTO story_tags: the PRIMARY KEY (story_id, tag_id) and the
\* two REFERENCES are checked for each row
RECURSIVE InsertPairs(_, _, _, _)
InsertPairs(st, pairs, storyIds, tagIds) ==
    IF pairs = <<>> THEN [ok |-> TRUE, story_tags |-> st]
    ELSE LET p == Head(pairs)
         IN  IF BagIn(p, st) \/ p[1] \notin storyIds \/ p[2] \notin tagIds
             THEN [ok |-> FALSE, story_tags |-> st]
             ELSE InsertPairs(st (+) SetToBag({p}), Tail(pairs), storyIds, tagIds)

\* (mutant) the story rows go and their story_tags rows stay
DeleteStoriesNoCascade(S, st, ids) ==
    [stories |-> [i \in DOMAIN S \ ids |-> S[i]], story_tags |-> st]

\* DELETE FROM stories WHERE id = %s, with ON DELETE CASCADE of story_tags
DeleteStories(S, st, ids) ==
    [stories |-> [i \in DOMAIN S \ ids |-> S[i]],
     story_tags |-> WithoutRows(st, {r \in BagToSet(st) : r[1] \in ids})]

\* DELETE FROM tags WHERE id = %s, with ON DELETE CASCADE of story_tags
DeleteTag(tg, st, tid) ==
    [tags |-> [i \in DOMAIN tg \ {tid} |-> tg[i]],
     story_tags |-> WithoutRows(st, RowsOfTag(st, tid))]

----------------------------------------------------------------------------
(* Requests and responses. *)

NoPre == [n |-> 0, ids |-> {}, list |-> <<>>]

\* no function call under study
NoCall == [fn |-> "", in |-> <<>>, out |-> <<>>, pc |-> ""]

\* no page rendered yet
NoListing == [tag |-> <<>>, q |-> <<>>, sort |-> "", stories |-> <<>>]

\* what last records: the route (op), the session, the form's action field (arg),
\* the id the request names, the branch the handler took, the response, and what
\* the handler read before it wrote (pre)
Request(op, s, arg, id, branch, resp, pre) ==
    [op |-> op, s |-> s, arg |-> arg, id |-> id, branch |-> branch, resp |-> resp, pre |-> pre]

\* the value of last when the latest step sent no response
NoAnswer == Request("start", "", "", None, "", "", NoPre)

\* request inputs the model draws from
ValidName == <<"c", "1", " ", "d">>

Form(name, title, body, selected, newRaw, photos) ==
    [name |-> name, title |-> title, body |-> body, tags |-> selected,
     new_tags |-> newRaw, photo |-> photos]

SubmitForms ==
    { Form(ValidName, <<"a">>, <<"b">>, <<>>, <<>>, <<>>),
      Form(ValidName, <<"a">>, <<"b">>, <<>>, <<"x">>, <<>>),
      Form(ValidName, <<"a">>, <<"b">>, <<>>, <<"x", ",", "y">>, <<>>),
      Form(ValidName, <<"a">>, <<"b">>, <<FormId("plain", 1)>>, <<"y", " ", "x">>, <<>>),
      Form(ValidName, <<" ", "a">>, <<"b">>, <<>>, <<"x">>, <<>>),
      Form(ValidName, <<"a">>, <<"b">>, <<FormId("plain", 1)>>,
           <<"x", ",", " ", "y", " ", "x">>, <<>>),
      Form(ValidName, <<"a">>, <<"b">>, <<FormId("plain", 2), FormId("padded", 2)>>,
           <<>>, <<>>),
      Form(ValidName, <<"a">>, <<"b">>, <<FormId("word", 0), FormId("plain", 1)>>,
           <<>>, <<"empty", "jpg_ok">>),
      Form(ValidName, <<"a">>, <<"b", " ">>, <<FormId("super", 2)>>, <<>>, <<>>),
      Form(<<"c", "d", "c", "d">>, <<"a">>, <<"b">>, <<>>, <<"x">>, <<>>),
      Form(<<" ", "c", " ", "d", " ">>, <<"a">>, <<"b">>, <<FormId("super", 2)>>, <<>>, <<>>),
      Form(ValidName, <<" ">>, <<"b">>, <<FormId("padded", 1)>>, <<"y">>, <<>>),
      Form(ValidName, <<"a">>, <<"b">>, <<>>, <<"x">>, <<"jpg_ok", "jpg_ok">>),
      Form(ValidName, <<"a">>, <<"b">>, <<>>, <<"x">>, <<"too_large">>) }

AdminForm(method, password, action, id) ==
    [method |-> method, password |-> password, action |-> action, id |-> id]

\* what a visitor without the admin page can send: the login form, and POSTs
\* written by hand that carry action and id fields
LoginForms ==
    { AdminForm("GET", "", "", None),
      AdminForm("POST", ADMIN_PASSWORD, "delete_story", Some(1)),
      AdminForm("POST", "Miki_the_best_vb_player", "delete_story", Some(1)),
      AdminForm("POST", "", "delete_tag", Some(1)),
      AdminForm("POST", "", "approve", Some(2)) }

\* what the admin page sends (its forms carry no password field), else what a
\* visitor sends; the visitor s2 does not know the password
AdminForms(s) ==
    IF session[s].is_admin
    THEN { AdminForm("GET", "", "", None), AdminForm("POST", "", "publish", Some(2)) }
         \cup { AdminForm("POST", "", "approve", i) :
                    i \in {None} \cup {Some(k) : k \in 0..MaxStoryId} }
         \cup { AdminForm("POST", "", "delete_story", Some(k)) : k \in 1..MaxStoryId }
         \cup { AdminForm("POST", "", "delete_tag", i) :
                    i \in {None} \cup {Some(k) : k \in 1..MaxTagId} }
    ELSE IF s = "s1" THEN LoginForms
    ELSE {f \in LoginForms : f.password # ADMIN_PASSWORD}

\* save_uploaded_image raises ValueError for a file name with another extension,
\* bytes that do not decode, and an image still above the cap after compression
ImageRejected(file) == file \in {"bad_ext", "corrupt", "too_large"}

\* validate_name
validate_name(name) == name # <<>> /\ Len(name) >= 4 /\ HasSpace(name)

\* the branch of submit_story a POST takes before it opens the connection
SubmitBranch(name, title, body, photo_files) ==
    IF Len(photo_files) > 1 THEN "photos"
    ELSE IF ~validate_name(name) THEN "name"
    ELSE IF title = <<>> \/ body = <<>> THEN "title_body"
    ELSE IF photo_files # <<>> /\ ImageRejected(photo_files[1]) THEN "image"
    ELSE "insert"

----------------------------------------------------------------------------
(* The handlers, statement by statement. A request runs in a worker on its own  *)
(* connection, in one transaction under READ COMMITTED: it sees the committed   *)
(* rows and its own; an UPDATE or DELETE locks its row until the commit, and    *)
(* another UPDATE or DELETE of that row waits; an INSERT into tags waits for a  *)
(* transaction in progress that has inserted the same name, and fails if that   *)
(* one commits; an INSERT into story_tags shares a lock on the tags row with    *)
(* other INSERTs and waits for a DELETE of that row; a DELETE of a stories or a  *)
(* tags row deletes the story_tags rows of that row as well (ON DELETE CASCADE) *)
(* and waits at each one that another transaction in progress has deleted; two  *)
(* transactions that wait for each other are a deadlock, and the database ends  *)
(* one of them with an error. The session is a cookie:                          *)
(* the request reads it when it starts, the response writes it when the handler *)
(* has changed it. tx[r] is the request the worker r is handling.               *)

Requests == {"r1", "r2"}

MaxTxTagSeq == 4

IdleTx ==
    [pc |-> "idle", s |-> "", sid |-> 0, row |-> StoryRow(<<>>, <<>>, <<>>, 0),
     names |-> <<>>, ids |-> <<>>, own |-> <<>>, held |-> 0, links |-> <<>>,
     read |-> <<>>, liked |-> {}, write |-> None, branch |-> "",
     todo |-> <<>>, rows |-> {}, tag |-> 0, cut |-> {},
     req |-> Request("", "", "", None, "", "", NoPre)]

Init ==
    /\ stories = <<>>
    /\ tags = <<>>
    /\ story_tags = EmptyBag
    /\ stories_id_seq = 0
    /\ tags_id_seq = 0
    /\ session = [s \in Sessions |-> [is_admin |-> FALSE, liked_stories |-> {}]]
    /\ now = 0
    /\ last = NoAnswer
    /\ tx = [r \in Requests |-> IdleTx]
    /\ listing = NoListing
    /\ call = NoCall

\* the worker r has a request it has not answered
InFlight(r) == tx[r].pc # "idle"

\* a new request goes to the first worker that is free
Free(r) == ~InFlight(r) /\ \A o \in Requests : InFlight(o) \/ o = r \/ r # "r1"

\* a request that arrived with the cookie of s is not answered yet
Busy(s) == \E r \in Requests : InFlight(r) /\ tx[r].s = s

\* (mutant) the UPDATE takes no row lock: it computes from the committed row at once
RowNeverLocked(sid) == FALSE

\* a transaction in progress has updated or deleted the stories row sid
RowLocked(sid) == \E r \in Requests : sid \in tx[r].rows

\* a transaction in progress has deleted the tags row tid
TagDeleted(tid) == \E r \in Requests : tx[r].tag = tid /\ tid # 0

\* a transaction in progress has inserted a story_tags row that refers to the
\* committed tags row tid
TagShared(tid) ==
    /\ tid \in DOMAIN tags
    /\ \E r \in Requests : \E i \in DOMAIN tx[r].links : tx[r].links[i][2] = tid

\* the tags rows the transaction of r sees
VisibleTags(r) == tags @@ tx[r].own

\* the other transactions in progress that have inserted a tags row with the name
HoldersOf(r, name) ==
    {o \in Requests \ {r} : NameTaken(tx[o].own, name)}

\* the INSERT of the name waits: for an inserter of the name, or for the
\* transaction that has deleted the committed row of the name
InsertWaits(r, name) ==
    \/ HoldersOf(r, name) # {}
    \/ \E id \in TagIdsNamed(tags, name) : TagDeleted(id)

AfterName(t) == [t EXCEPT !.names = Tail(@),
                          !.pc = IF Len(t.names) > 1 THEN "select" ELSE "replace",
                          !.held = 0]

\* (mutant) a connection in autocommit mode: the story row stays after the error
TxAbortKeepsStory(r, cause) ==
    /\ tx' = [tx EXCEPT ![r] = IdleTx]
    /\ last' = Request("submit", r, cause, Some(tx[r].sid), "rolled_back", "error",
                       [NoPre EXCEPT !.list = tx[r].ids])
    /\ stories' = stories @@ (tx[r].sid :> tx[r].row)
    /\ UNCHANGED <<tags, story_tags, stories_id_seq, session, now, listing, call>>

\* the exception leaves the with block: rollback, and the response is an error
TxAbort(r, cause) ==
    /\ tx' = [tx EXCEPT ![r] = IdleTx]
    /\ last' = Request("submit", r, cause, Some(tx[r].sid), "rolled_back", "error",
                       [NoPre EXCEPT !.list = tx[r].ids])
    /\ UNCHANGED <<stories, tags, story_tags, stories_id_seq, session, now, listing, call>>

\* POST /submit up to the clock read of line 477: the form is rendered again
\* when a check fails, before a connection is opened. A request is taken only
\* when there is a story id left for it
TxBegin(r, form) ==
    LET name == Strip(form.name)
        title == Strip(form.title)
        body == Strip(form.body)
        names == parse_new_tag_names(Strip(form.new_tags))
        photo_files == SelectSeq(form.photo, LAMBDA f : f # "empty")
        branch == SubmitBranch(name, title, body, photo_files)
    IN  /\ ~InFlight(r)
        /\ IF branch # "insert"
           THEN /\ tx' = [tx EXCEPT ![r] = IdleTx]
                /\ last' = Request("submit", r, "", None, branch,
                                   IF FormIdsRaise(form.tags) THEN "error" ELSE "form",
                                   NoPre)
           ELSE /\ stories_id_seq + Cardinality({o \in Requests : tx[o].pc = "story"})
                      < MaxStoryId
                /\ tx' = [tx EXCEPT ![r] =
                            [IdleTx EXCEPT !.pc = "story",
                                           !.row = StoryRow(name, title, body, now),
                                           !.names = names,
                                           !.ids = CoerceIds(form.tags)]]
                /\ last' = NoAnswer
        /\ UNCHANGED <<db, session, now, listing, call>>

\* get_connection() and INSERT INTO stories ... RETURNING id, with the
\* timestamp the handler read before; then the loop over selected_ids
TxStory(r) ==
    LET t == tx[r]
    IN  /\ t.pc = "story"
        /\ stories_id_seq' = stories_id_seq + 1
        /\ tx' = [tx EXCEPT ![r] =
                    [t EXCEPT !.pc = IF t.names = <<>> THEN "replace" ELSE "select",
                              !.sid = stories_id_seq + 1]]
        /\ last' = NoAnswer
        /\ UNCHANGED <<stories, tags, story_tags, tags_id_seq, session, now, listing, call>>

\* SELECT id FROM tags WHERE name = %s, and the append when a row is found
TxSelect(r) ==
    LET t == tx[r]
        existing == TagIdsNamed(VisibleTags(r), Head(t.names))
    IN  /\ t.pc = "select"
        /\ tx' = [tx EXCEPT ![r] =
                    IF existing # {}
                    THEN AfterName([t EXCEPT !.ids = Append(@, CHOOSE id \in existing : TRUE)])
                    ELSE [t EXCEPT !.pc = "insert"]]
        /\ last' = NoAnswer
        /\ UNCHANGED <<db, session, now, listing, call>>

\* the row is in: the id is appended and the loop goes on
TxInserted(r, id) ==
    /\ tx' = [tx EXCEPT ![r] =
                AfterName([tx[r] EXCEPT !.own = @ @@ (id :> Head(tx[r].names)),
                                        !.ids = Append(@, id)])]
    /\ last' = NoAnswer
    /\ UNCHANGED <<stories, tags, story_tags, stories_id_seq, session, now, listing, call>>

\* INSERT INTO tags (name, created_at) ... RETURNING id
TxInsert(r) ==
    LET t == tx[r]
        name == Head(t.names)
        id == tags_id_seq + 1
    IN  /\ t.pc = "insert"
        /\ tags_id_seq < MaxTxTagSeq
        /\ tags_id_seq' = id
        /\ IF InsertWaits(r, name)
           THEN /\ tx' = [tx EXCEPT ![r] = [t EXCEPT !.pc = "wait", !.held = id]]
                /\ last' = NoAnswer
                /\ UNCHANGED <<stories, tags, story_tags, stories_id_seq, session, now, listing, call>>
           ELSE IF NameTaken(tags, name) THEN TxAbort(r, "unique")
           ELSE TxInserted(r, id)

\* the transaction the INSERT waited for has ended
TxWake(r) ==
    LET t == tx[r]
        name == Head(t.names)
    IN  /\ t.pc = "wait"
        /\ ~InsertWaits(r, name)
        /\ UNCHANGED tags_id_seq
        /\ IF NameTaken(tags, name) THEN TxAbort(r, "unique") ELSE TxInserted(r, t.held)

\* two INSERTs wait for each other: the database ends one with a deadlock error
TxDeadlock(r) ==
    /\ tx[r].pc = "wait"
    /\ \E o \in HoldersOf(r, Head(tx[r].names)) :
          tx[o].pc = "wait" /\ r \in HoldersOf(o, Head(tx[o].names))
    /\ UNCHANGED tags_id_seq
    /\ TxAbort(r, "deadlock")

\* the unique_ids loop of ensure_tag_ids, then DELETE FROM story_tags WHERE
\* story_id = %s, which finds no committed row of the new story, and the pairs
TxReplace(r) ==
    LET t == tx[r]
        ids == UniqueIds(t.ids)
    IN  /\ t.pc = "replace"
        /\ tx' = [tx EXCEPT ![r] = [t EXCEPT !.pc = IF ids = <<>> THEN "commit" ELSE "link",
                                             !.ids = ids, !.todo = ids, !.links = <<>>]]
        /\ last' = NoAnswer
        /\ UNCHANGED <<db, session, now, listing, call>>

\* one INSERT INTO story_tags of the executemany: the foreign key check locks
\* the tags row, and waits while a transaction in progress has deleted it
TxLink(r) ==
    LET t == tx[r]
        pair == <<t.sid, Head(t.todo)>>
        res == InsertPairs(story_tags (+) SetToBag(Range(t.links)), <<pair>>,
                           DOMAIN stories \cup {t.sid}, DOMAIN VisibleTags(r))
    IN  /\ t.pc = "link"
        /\ ~TagDeleted(Head(t.todo))
        /\ IF res.ok
           THEN /\ tx' = [tx EXCEPT ![r] =
                            [t EXCEPT !.pc = IF Len(t.todo) > 1 THEN "link" ELSE "commit",
                                      !.todo = Tail(@),
                                      !.links = Append(@, pair)]]
                /\ last' = NoAnswer
                /\ UNCHANGED <<db, session, now, listing, call>>
           ELSE UNCHANGED tags_id_seq /\ TxAbort(r, "foreign_key")

\* conn.commit()
TxCommit(r) ==
    LET t == tx[r]
    IN  /\ t.pc = "commit"
        /\ stories' = stories @@ (t.sid :> t.row)
        /\ tags' = tags @@ t.own
        /\ story_tags' = story_tags (+) SetToBag(Range(t.links))
        /\ tx' = [tx EXCEPT ![r] = IdleTx]
        /\ last' = Request("submit", r, "", Some(t.sid), "saved", "redirect",
                           [NoPre EXCEPT !.list = t.ids])
        /\ UNCHANGED <<stories_id_seq, tags_id_seq, session, now, listing, call>>

\* the orders of the ids
Perms(ids) ==
    {l \in [1..Cardinality(ids) -> ids] : \A i, j \in DOMAIN l : i # j => l[i] # l[j]}

\* (mutant) the SELECT leaves out the stories that carry another tag as well
StoriesOfTagAlone(S, st, tid) ==
    {i \in DOMAIN S : RowsOfStory(st, i) = {<<i, tid>>}}

\* the stories delete_tag selects: SELECT DISTINCT s.id ... WHERE st.tag_id = %s
StoriesOfTag(S, st, tid) == {r[1] : r \in RowsOfTag(st, tid)} \cap DOMAIN S

\* (mutant) the UPDATE sets is_approved and leaves updated_at
AdminApproveKeepsTime(S, sid, t) ==
    [i \in DOMAIN S |-> IF i = sid THEN [S[i] EXCEPT !.is_approved = 1] ELSE S[i]]

\* (mutant) the UPDATE has no WHERE clause on is_approved: it approves every story
AdminApproveAll(S, sid, t) ==
    [i \in DOMAIN S |-> [S[i] EXCEPT !.is_approved = 1,
                                     !.updated_at = IF i = sid THEN t ELSE @]]

\* the UPDATE of the approve branch of admin_panel
AdminApprove(S, sid, t) ==
    [i \in DOMAIN S |-> IF i = sid THEN [S[i] EXCEPT !.is_approved = 1, !.updated_at = t]
                        ELSE S[i]]

\* (mutant) any non-empty password logs in
PasswordNotEmpty(password) == password # ""

\* if password == ADMIN_PASSWORD
PasswordMatches(password) == password = ADMIN_PASSWORD

\* the branch of admin_panel that a POST of the logged-in admin takes
AdminBranch(form) ==
    IF form.id = None THEN "missing_id"
    ELSE IF form.action \in {"delete_tag", "delete_story"} THEN form.action
    ELSE "approve"

\* GET or POST /admin up to the first statement: the session check, the login,
\* and the branch on the form. The request arrives with the cookie of s.
AdminPanel(r, s, form) ==
    LET branch == IF ~session[s].is_admin
                  THEN IF form.method # "POST" THEN "login_form"
                       ELSE IF PasswordMatches(form.password) THEN "login"
                       ELSE "login_failed"
                  ELSE IF form.method # "POST" THEN "page" ELSE AdminBranch(form)
        \* the story an approve or delete_story is about, if it is there when the
        \* request arrives
        pre == [NoPre EXCEPT !.ids = IF branch \in {"approve", "delete_story"}
                                     THEN {form.id[1]} \cap DOMAIN stories ELSE {}]
        req == Request("admin", s, IF branch = "page" THEN "" ELSE form.action,
                       IF branch = "page" THEN None ELSE form.id, branch,
                       IF branch = "login" THEN "redirect"
                       ELSE IF branch \in {"login_form", "login_failed"} THEN "login_page"
                       ELSE "admin_page", pre)
    IN  /\ ~InFlight(r)
        /\ IF branch \in {"login_form", "login_failed", "page", "missing_id"}
           THEN /\ tx' = [tx EXCEPT ![r] = IdleTx]
                /\ last' = req
           ELSE /\ tx' = [tx EXCEPT ![r] =
                            [IdleTx EXCEPT !.pc = branch, !.s = s, !.read = session[s],
                                           !.sid = IF branch = "login" THEN 0 ELSE form.id[1],
                                           !.branch = branch, !.req = req]]
                /\ last' = NoAnswer
        /\ UNCHANGED <<db, session, now, listing, call>>

\* the story_tags rows that the ON DELETE CASCADE of the statements of t has
\* still to delete: the rows of the stories and of the tag that t has deleted
Pending(t) ==
    {row \in BagToSet(story_tags) :
        /\ t.branch \in {"delete_tag", "delete_story"}
        /\ row[1] \in t.rows \/ row[2] = t.tag} \ t.cut

\* where the request stands after a DELETE has taken its row: in the cascade of
\* the statement while story_tags rows are left for it, else at the statement
\* that follows
Cascaded(t) ==
    [t EXCEPT !.pc = IF Pending(t) # {} THEN "cascade"
                     ELSE IF t.branch = "delete_story" \/ t.tag # 0 THEN "admin_commit"
                     ELSE IF t.todo # <<>> THEN "stories"
                     ELSE "tag"]

\* SELECT DISTINCT s.id ... fetchall(): the rows come in an order the database
\* chooses. req.pre records what the tables hold when the SELECT runs: whether
\* the tag is there, the stories linked to it, and how many of them carry
\* another tag as well
AdminSelect(r) ==
    LET tid == tx[r].sid
        linked == {i \in DOMAIN stories : BagIn(<<i, tid>>, story_tags)}
        pre == [NoPre EXCEPT !.ids = linked,
                   !.list = IF tid \in DOMAIN tags THEN <<tid>> ELSE <<>>,
                   !.n = Cardinality({i \in linked :
                                         RowsOfStory(story_tags, i) # {<<i, tid>>}})]
    IN  /\ tx[r].pc = "delete_tag"
        /\ \E order \in Perms(StoriesOfTag(stories, story_tags, tid)) :
              tx' = [tx EXCEPT ![r].todo = order,
                               ![r].pc = IF order = <<>> THEN "tag" ELSE "stories",
                               ![r].req.pre = pre]
        /\ last' = NoAnswer
        /\ UNCHANGED <<db, session, now, listing, call>>

\* for row in story_rows: DELETE FROM stories WHERE id = %s, one statement: it
\* waits for the lock of the stories row, and its cascade follows
AdminDeleteStories(r) ==
    LET t == tx[r]
        id == Head(t.todo)
    IN  /\ t.pc = "stories"
        /\ ~RowLocked(id)
        /\ tx' = [tx EXCEPT ![r] = Cascaded([t EXCEPT
                                       !.rows = @ \cup ({id} \cap DOMAIN stories),
                                       !.todo = Tail(@)])]
        /\ last' = NoAnswer
        /\ UNCHANGED <<db, session, now, listing, call>>

\* DELETE FROM tags WHERE id = %s: it waits for the transactions that have
\* deleted the tags row or hold the share lock of a story_tags INSERT on it,
\* and its cascade follows
AdminDeleteTag(r) ==
    LET t == tx[r]
    IN  /\ t.pc = "tag"
        /\ ~TagShared(t.sid)
        /\ ~TagDeleted(t.sid)
        /\ tx' = [tx EXCEPT ![r] = IF t.sid \in DOMAIN tags
                                   THEN Cascaded([t EXCEPT !.tag = t.sid])
                                   ELSE [t EXCEPT !.pc = "admin_commit"]]
        /\ last' = NoAnswer
        /\ UNCHANGED <<db, session, now, listing, call>>

\* DELETE FROM stories WHERE id = %s of the delete_story branch
AdminDeleteStory(r) ==
    LET t == tx[r]
    IN  /\ t.pc = "delete_story"
        /\ ~RowLocked(t.sid)
        /\ tx' = [tx EXCEPT ![r] = Cascaded([t EXCEPT
                                       !.rows = {t.sid} \cap DOMAIN stories])]
        /\ last' = NoAnswer
        /\ UNCHANGED <<db, session, now, listing, call>>

\* ON DELETE CASCADE (lines 125-129) inside a DELETE FROM stories or DELETE FROM
\* tags: the statement deletes the story_tags rows of its parent row one by
\* one, in an order the database chooses, and waits at a row that another
\* transaction in progress has deleted; the statement ends when no row is left,
\* also when the other transaction has committed its delete of the rest
AdminCascade(r) ==
    LET t == tx[r]
    IN  /\ t.pc = "cascade"
        /\ IF Pending(t) = {}
           THEN tx' = [tx EXCEPT ![r] = Cascaded(t)]
           ELSE \E row \in Pending(t) :
                   /\ \A o \in Requests \ {r} : row \notin tx[o].cut
                   /\ tx' = [tx EXCEPT ![r] = Cascaded([t EXCEPT !.cut = @ \cup {row}])]
        /\ last' = NoAnswer
        /\ UNCHANGED <<db, session, now, listing, call>>

\* datetime.utcnow().isoformat(timespec="seconds"), the argument of the UPDATE
AdminStamp(r) ==
    /\ tx[r].pc = "approve"
    /\ tx' = [tx EXCEPT ![r].write = Some(now), ![r].pc = "update"]
    /\ last' = NoAnswer
    /\ UNCHANGED <<db, session, now, listing, call>>

\* UPDATE stories SET is_approved = 1, updated_at = %s WHERE id = %s
AdminUpdate(r) ==
    LET t == tx[r]
    IN  /\ t.pc = "update"
        /\ ~RowLocked(t.sid)
        /\ tx' = [tx EXCEPT ![r].rows = {t.sid} \cap DOMAIN stories,
                            ![r].pc = "admin_commit"]
        /\ last' = NoAnswer
        /\ UNCHANGED <<db, session, now, listing, call>>

\* conn.commit() of admin_panel, and the page
AdminCommit(r) ==
    LET t == tx[r]
        d == DeleteStories(stories, story_tags, t.rows)
        g == DeleteTag(tags, d.story_tags, t.tag)
    IN  /\ t.pc = "admin_commit"
        /\ IF t.branch = "approve"
           THEN /\ stories' = IF t.rows = {} THEN stories
                              ELSE AdminApprove(stories, t.sid, t.write[1])
                /\ UNCHANGED <<tags, story_tags>>
           ELSE /\ stories' = d.stories
                /\ tags' = IF t.tag = 0 THEN tags ELSE g.tags
                /\ story_tags' = IF t.tag = 0 THEN d.story_tags ELSE g.story_tags
        /\ tx' = [tx EXCEPT ![r] = IdleTx]
        /\ last' = t.req
        /\ UNCHANGED <<stories_id_seq, tags_id_seq, session, now, listing, call>>

\* two requests that delete wait for each other: each stands at a DELETE FROM
\* stories whose row, at a DELETE FROM tags whose row, or in a cascade one of
\* whose story_tags rows the other has locked. The database ends one of them
\* with a deadlock error; the exception leaves the with block, the transaction
\* is rolled back and the request is answered with an error
AdminDeadlock(r) ==
    LET Waits(a, b) ==
            \/ tx[a].pc = "stories" /\ Head(tx[a].todo) \in tx[b].rows
            \/ tx[a].pc = "delete_story" /\ tx[a].sid \in tx[b].rows
            \/ tx[a].pc = "tag" /\ tx[b].tag = tx[a].sid
            \/ tx[a].pc = "cascade" /\ Pending(tx[a]) \cap tx[b].cut # {}
    IN  /\ \E o \in Requests \ {r} : Waits(r, o) /\ Waits(o, r)
        /\ tx' = [tx EXCEPT ![r] = IdleTx]
        /\ last' = [tx[r].req EXCEPT !.branch = "deadlock", !.resp = "error"]
        /\ UNCHANGED <<db, session, now, listing, call>>

\* POST /admin/logout: session.pop("is_admin", None) changes the session when
\* the key is there
AdminLogout(r, s) ==
    LET req == Request("logout", s, "", None, "logout", "redirect", NoPre)
    IN  /\ ~InFlight(r)
        /\ IF session[s].is_admin
           THEN /\ tx' = [tx EXCEPT ![r] = [IdleTx EXCEPT !.pc = "logout", !.s = s,
                                               !.read = session[s], !.branch = "logout",
                                               !.req = req]]
                /\ last' = NoAnswer
           ELSE /\ tx' = [tx EXCEPT ![r] = IdleTx]
                /\ last' = req
        /\ UNCHANGED <<db, session, now, listing, call>>

\* the response of a login or a logout sets the cookie to the session the request
\* arrived with, changed by the handler
SessionStore(r) ==
    /\ tx[r].pc \in {"login", "logout"}
    /\ session' = [session EXCEPT ![tx[r].s] = [tx[r].read EXCEPT
                                                   !.is_admin = (tx[r].pc = "login")]]
    /\ tx' = [tx EXCEPT ![r] = IdleTx]
    /\ last' = tx[r].req
    /\ UNCHANGED <<db, now, listing, call>>

MaxLikeCount == 3

\* (mutant) SET likes = likes - 1
LikesAfterUnlikeNoFloor(n) == n - 1

\* SET likes = CASE WHEN likes > 0 THEN likes - 1 ELSE 0 END
LikesAfterUnlike(n) == IF n > 0 THEN n - 1 ELSE 0

\* SET likes = likes + 1
LikesAfterLike(n) == n + 1

\* (mutant) the unlike branch removes the id from the set and leaves likes alone
LikeToggleKeepsCount(S, liked, sid) ==
    IF sid \in liked
    THEN [stories |-> S, liked |-> liked \ {sid}, branch |-> "unliked"]
    ELSE [stories |-> [S EXCEPT ![sid].likes = LikesAfterLike(@)],
          liked |-> liked \cup {sid}, branch |-> "liked"]

\* the toggle of like_story on the row the UPDATE finds
LikeToggle(S, liked, sid) ==
    IF sid \in liked
    THEN [stories |-> [S EXCEPT ![sid].likes = LikesAfterUnlike(@)],
          liked |-> liked \ {sid}, branch |-> "unliked"]
    ELSE [stories |-> [S EXCEPT ![sid].likes = LikesAfterLike(@)],
          liked |-> liked \cup {sid}, branch |-> "liked"]

\* (mutant) the SELECT without AND is_approved = 1
LikeFindsUnapproved(S, sid) == sid \in DOMAIN S

\* SELECT id, likes FROM stories WHERE id = %s AND is_approved = 1
LikeFinds(S, sid) == sid \in DOMAIN S /\ S[sid].is_approved = 1

\* POST /story/<id>/like arrives with the cookie of s, and
\* liked_stories = {int(sid) for sid in session.get("liked_stories", [])}
LikeRead(r, s, sid) ==
    /\ ~InFlight(r)
    /\ tx' = [tx EXCEPT ![r] = [IdleTx EXCEPT !.pc = "like_select", !.s = s, !.sid = sid,
                                              !.read = session[s],
                                              !.liked = session[s].liked_stories]]
    /\ last' = NoAnswer
    /\ UNCHANGED <<db, session, now, listing, call>>

\* the SELECT and the early return for a story that is missing or unapproved
LikeSelect(r) ==
    /\ tx[r].pc = "like_select"
    /\ IF LikeFinds(stories, tx[r].sid)
       THEN /\ tx' = [tx EXCEPT ![r].pc = "like_update"]
            /\ last' = NoAnswer
       ELSE /\ tx' = [tx EXCEPT ![r] = IdleTx]
            /\ last' = Request("like", tx[r].s, "", Some(tx[r].sid), "missing", "redirect",
                               NoPre)
    /\ UNCHANGED <<db, session, now, listing, call>>

\* the UPDATE of the branch chosen by the set read from the session; it changes
\* the committed row as it is when the lock is granted, and no row when the
\* story was deleted after the SELECT
LikeUpdate(r) ==
    LET t == tx[r]
        r2 == LikeToggle(stories, t.liked, t.sid)
    IN  /\ t.pc = "like_update"
        /\ ~RowLocked(t.sid)
        /\ IF t.sid \in DOMAIN stories
           THEN /\ r2.stories[t.sid].likes <= MaxLikeCount
                /\ tx' = [tx EXCEPT ![r].pc = "like_commit", ![r].liked = r2.liked,
                                    ![r].branch = r2.branch, ![r].rows = {t.sid},
                                    ![r].write = Some(r2.stories[t.sid].likes)]
           ELSE tx' = [tx EXCEPT ![r].pc = "like_commit", ![r].branch =
                                     IF t.sid \in t.liked THEN "unliked" ELSE "liked",
                                 ![r].liked = IF t.sid \in t.liked THEN t.liked \ {t.sid}
                                              ELSE t.liked \cup {t.sid}]
        /\ last' = NoAnswer
        /\ UNCHANGED <<db, session, now, listing, call>>

\* conn.commit()
LikeCommit(r) ==
    /\ tx[r].pc = "like_commit"
    /\ IF tx[r].write # None
       THEN stories' = [stories EXCEPT ![tx[r].sid].likes = tx[r].write[1]]
       ELSE UNCHANGED stories
    /\ tx' = [tx EXCEPT ![r].pc = "like_store", ![r].write = None, ![r].rows = {}]
    /\ last' = NoAnswer
    /\ UNCHANGED <<tags, story_tags, stories_id_seq, tags_id_seq, session, now, listing, call>>

\* session["liked_stories"] = list(liked_stories), and the redirect: the response
\* sets the cookie to the session the request arrived with, changed by the request
LikeStore(r) ==
    /\ tx[r].pc = "like_store"
    /\ session' = [session EXCEPT ![tx[r].s] = [tx[r].read EXCEPT
                                                   !.liked_stories = tx[r].liked]]
    /\ tx' = [tx EXCEPT ![r] = IdleTx]
    /\ last' = Request("like", tx[r].s, "", Some(tx[r].sid), tx[r].branch, "redirect",
                       [NoPre EXCEPT !.ids = tx[r].read.liked_stories])
    /\ call' = IF call.fn = "like_story" THEN [call EXCEPT !.out = Append(@, last')] ELSE call
    /\ UNCHANGED <<db, now, listing>>

\* a second passes on the clock behind datetime.utcnow()
Tick ==
    /\ now < MaxClock
    /\ now' = now + 1
    /\ last' = NoAnswer
    /\ UNCHANGED <<db, session, tx, listing, call>>

----------------------------------------------------------------------------
(* Submissions alone: two workers, the forms that create tags and the forms    *)
(* that fail a check.                                                          *)

NextTx ==
    \/ \E r \in Requests, form \in SubmitForms : Free(r) /\ TxBegin(r, form)
    \/ \E r \in Requests : TxSelect(r)
    \/ \E r \in Requests : TxInsert(r)
    \/ \E r \in Requests : TxWake(r)
    \/ \E r \in Requests : TxDeadlock(r)
    \/ \E r \in Requests : TxStory(r)
    \/ \E r \in Requests : TxReplace(r)
    \/ \E r \in Requests : TxLink(r)
    \/ \E r \in Requests : TxCommit(r)

SpecTx == Init /\ [][NextTx]_vars

----------------------------------------------------------------------------
(* The public listing, GET /. *)

\* (mutant) the WHERE without s.is_approved = 1
WhereRowsAnyStory(S, st, tag, q) ==
    {id \in DOMAIN S :
        /\ (tag # None /\ tag[1] # 0) => BagIn(<<id, tag[1]>>, st)
        /\ q # <<>> =>
             LET pattern == <<"%">> \o q \o <<"%">>
             IN  ILike(S[id].title, pattern) \/ ILike(S[id].body, pattern)
                 \/ ILike(S[id].name, pattern)}

\* the WHERE clauses index builds: s.is_approved = 1, the EXISTS on story_tags
\* when the tag parameter is truthy, the three ILIKEs when q is not empty
WhereRows(S, st, tag, q) ==
    {id \in DOMAIN S :
        /\ S[id].is_approved = 1
        /\ (tag # None /\ tag[1] # 0) => BagIn(<<id, tag[1]>>, st)
        /\ q # <<>> =>
             LET pattern == <<"%">> \o q \o <<"%">>
             IN  ILike(S[id].title, pattern) \/ ILike(S[id].body, pattern)
                 \/ ILike(S[id].name, pattern)}

\* if sort_param not in {"likes", "latest"}: sort_param = "likes"
SortParam(sort) == IF sort \in {"likes", "latest"} THEN sort ELSE "likes"

\* ORDER BY s.likes DESC, s.updated_at DESC, or ORDER BY s.updated_at DESC: rows
\* that compare equal come in the order the database happens to produce
SqlBefore(S, sort, a, b) ==
    IF sort = "latest" THEN S[a].updated_at >= S[b].updated_at
    ELSE \/ S[a].likes > S[b].likes
         \/ S[a].likes = S[b].likes /\ S[a].updated_at >= S[b].updated_at

SqlOrders(S, ids, sort) ==
    {l \in Perms(ids) : \A i, j \in DOMAIN l : i < j => SqlBefore(S, sort, l[i], l[j])}

\* (mutant) the title counted once
RelevanceTitleOnce(row, needle) ==
    Count(LowerStr(row.title), needle) + Count(LowerStr(row.body), needle)
    + Count(LowerStr(row.name), needle)

\* title_score + body_score + name_score
Relevance(row, needle) ==
    Count(LowerStr(row.title), needle) * 2 + Count(LowerStr(row.body), needle)
    + Count(LowerStr(row.name), needle)

\* the sort key: (relevance, likes) or (relevance, updated_at)
SortKey(S, sort, needle, id) ==
    <<Relevance(S[id], needle), IF sort = "latest" THEN S[id].updated_at ELSE S[id].likes>>

KeyLess(k1, k2) == k1[1] < k2[1] \/ (k1[1] = k2[1] /\ k1[2] < k2[2])

\* list.sort(key=..., reverse=True) is stable: an item goes before the first item
\* whose key is smaller, behind every item whose key is equal
RECURSIVE SortedDesc(_, _, _, _, _)
SortedDesc(S, sort, needle, l, done) ==
    IF l = <<>> THEN done
    ELSE LET x == Head(l)
             smaller == {i \in DOMAIN done :
                            KeyLess(SortKey(S, sort, needle, done[i]), SortKey(S, sort, needle, x))}
             at == IF smaller = {} THEN Len(done) + 1
                   ELSE CHOOSE i \in smaller : \A j \in smaller : i <= j
         IN  SortedDesc(S, sort, needle, Tail(l),
                        SubSeq(done, 1, at - 1) \o <<x>> \o SubSeq(done, at, Len(done)))

\* the stories index hands to the template, in order, in every order the
\* database may return rows that compare equal
Index(S, st, tag, qRaw, sortRaw) ==
    LET q == Strip(qRaw)
        sort == SortParam(sortRaw)
        needle == LowerStr(q)
        rows == SqlOrders(S, WhereRows(S, st, tag, q), sort)
    IN  {[i \in DOMAIN l |-> [id |-> l[i], relevance |-> IF q = <<>> THEN 0
                                                          ELSE Relevance(S[l[i]], needle)]] :
            l \in IF q = <<>> THEN rows
                  ELSE {SortedDesc(S, sort, needle, r, <<>>) : r \in rows}}

\* fetch_tags_with_counts: tags LEFT JOIN story_tags LEFT JOIN stories (ON s.id =
\* st.story_id AND s.is_approved = 1), GROUP BY t.id, HAVING COUNT(st.story_id) > 0,
\* with usage_count = COUNT(DISTINCT st.story_id). A story_tags row whose story is
\* not approved stays in the join with a null stories side. The result is given
\* as the set of its rows; ORDER BY LOWER(t.name) arranges them
fetch_tags_with_counts(S, tg, st) ==
    LET joined(t) ==
            { [story_id |-> r[1],
               s |-> IF r[1] \in DOMAIN S /\ S[r[1]].is_approved = 1 THEN Some(r[1])
                     ELSE None] : r \in RowsOfTag(st, t) }
    IN  { [id |-> t, name |-> tg[t],
           usage_count |-> Cardinality({j.story_id : j \in joined(t)})] :
            t \in {u \in DOMAIN tg : Cardinality(joined(u)) > 0} }

SortParams == { "likes", "latest", "hot" }

\* submissions and the requests of the teacher's browser, on two workers; the
\* submissions are a story without tags, and a story with the tag of id 1
\* selected and the new tags x and y
Next ==
    \/ \E r \in Requests :
          \E form \in { Form(ValidName, <<"a">>, <<"b">>, <<>>, <<>>, <<>>),
                        Form(ValidName, <<"a">>, <<"b">>, <<FormId("plain", 1)>>,
                             <<"x", ",", "y">>, <<>>) } :
              Free(r) /\ TxBegin(r, form)
    \/ \E r \in Requests : \E form \in AdminForms("s1") : Free(r) /\ AdminPanel(r, "s1", form)
    \/ \E r \in Requests : TxSelect(r)
    \/ \E r \in Requests : TxInsert(r)
    \/ \E r \in Requests : TxWake(r)
    \/ \E r \in Requests : TxStory(r)
    \/ \E r \in Requests : TxReplace(r)
    \/ \E r \in Requests : TxLink(r)
    \/ \E r \in Requests : TxCommit(r)
    \/ \E r \in Requests : AdminSelect(r)
    \/ \E r \in Requests : AdminDeleteStories(r)
    \/ \E r \in Requests : AdminDeleteTag(r)
    \/ \E r \in Requests : AdminCascade(r)
    \/ \E r \in Requests : AdminDeleteStory(r)
    \/ \E r \in Requests : AdminStamp(r)
    \/ \E r \in Requests : AdminUpdate(r)
    \/ \E r \in Requests : AdminCommit(r)
    \/ \E r \in Requests : AdminDeadlock(r)
    \/ \E r \in Requests : SessionStore(r)

Spec == Init /\ [][Next]_vars

----------------------------------------------------------------------------
(* Searching: GET /?q=...&sort=... over published stories. *)

MaxLikes == 1

\* approved stories whose name, title and body hold or lack the searched letters
SearchRows ==
    { [StoryRow(name, title, body, t) EXCEPT !.likes = k, !.is_approved = 1] :
        name \in { <<"c", "1", " ", "d">>, <<"a", "a", " ", "a", "a">> },
        title \in { <<"a", "A">>, <<"b">> },
        body \in { <<"a">>, <<"b">>, <<"a", "a", "a">> },
        t \in 0..MaxClock, k \in 0..MaxLikes }

InitSearch ==
    /\ stories \in [1..MaxStoryId -> SearchRows]
    /\ tags = <<>>
    /\ story_tags = EmptyBag
    /\ stories_id_seq = MaxStoryId
    /\ tags_id_seq = 0
    /\ session = [s \in Sessions |-> [is_admin |-> FALSE, liked_stories |-> {}]]
    /\ now = MaxClock
    /\ last = NoAnswer
    /\ tx = <<>>
    /\ listing = NoListing
    /\ call = NoCall

\* GET /: the page shows one of the lists index can produce
IndexRequest(tag, qRaw, sortRaw) ==
    /\ \E l \in Index(stories, story_tags, tag, qRaw, sortRaw) :
          listing' = [tag |-> tag, q |-> qRaw, sort |-> sortRaw, stories |-> l]
    /\ UNCHANGED <<db, session, now, last, tx, call>>

NextSearch ==
    \E q \in { <<>>, <<"a">>, <<"A", " ">>, <<"a", "a">> }, sort \in SortParams :
        IndexRequest(None, q, sort)

SpecSearch == InitSearch /\ [][NextSearch]_vars

----------------------------------------------------------------------------
(* parse_new_tag_names on its own: any text of the new_tags field. *)

MaxRawLen == 4

RECURSIVE Texts(_)
Texts(n) ==
    IF n = 0 THEN {<<>>}
    ELSE LET shorter == Texts(n - 1)
         IN  shorter \cup {Append(t, c) : t \in shorter, c \in {"a", "b", ",", " ", "\t"}}

\* the text "a, a b,, b"
ExampleRaw == <<"a", ",", " ", "a", " ", "b", ",", ",", " ", "b">>

InitParse ==
    /\ stories = <<>>
    /\ tags = <<>>
    /\ story_tags = EmptyBag
    /\ stories_id_seq = 0
    /\ tags_id_seq = 0
    /\ session = [s \in Sessions |-> [is_admin |-> FALSE, liked_stories |-> {}]]
    /\ now = 0
    /\ last = NoAnswer
    /\ tx = <<>>
    /\ listing = NoListing
    /\ \E raw \in Texts(MaxRawLen) \cup {ExampleRaw} :
          call = [fn |-> "parse_new_tag_names", in |-> raw, out |-> <<>>, pc |-> "called"]

ParseNewTagNames ==
    /\ call.fn = "parse_new_tag_names" /\ call.pc = "called"
    /\ call' = [call EXCEPT !.out = parse_new_tag_names(call.in), !.pc = "returned"]
    /\ UNCHANGED <<db, session, now, last, tx, listing>>

NextParse == ParseNewTagNames

SpecParse == InitParse /\ [][NextParse]_vars

----------------------------------------------------------------------------
(* save_uploaded_image and compress_image_to_limit, step by step. The file is  *)
(* its name, cut at the dots, what the image library makes of its bytes, and    *)
(* the size of the picture; the encoder may return any size at every call.      *)

MAX_IMAGE_SIZE == 512 * 1024

ALLOWED_IMAGE_EXTENSIONS == {"png", "jpg", "jpeg", "gif", "webp"}

MaxSide == 1000

Sides == {1, 2, 640, 641, 800, MaxSide}

LowerExt(ext) ==
    IF ext = "JPG" THEN "jpg" ELSE IF ext = "PNG" THEN "png" ELSE ext

\* "." in filename and filename.rsplit(".", 1)[1].lower() in ALLOWED_IMAGE_EXTENSIONS
allowed_image(filename) ==
    Len(filename) >= 2 /\ LowerExt(filename[Len(filename)]) \in ALLOWED_IMAGE_EXTENSIONS

Max(a, b) == IF a >= b THEN a ELSE b

\* (mutant) the side is left as it is
ShrinkNot(side) == side

\* max(1, int(side * 0.9))
Shrink(side) == Max(1, (9 * side) \div 10)

\* given: file_storage.filename is not empty. filename: the name as
\* secure_filename returns it, cut at the dots; <<>> is the empty name, which
\* secure_filename returns for the empty name and for a name such as "..." or "/".
\* Image.open identifies the format lazily: the bytes are "unidentified" (open
\* raises UnidentifiedImageError), "truncated" (open succeeds, loading the
\* pixels in convert raises OSError) or an "image"
Files ==
    { [given |-> g, filename |-> f, stream |-> st, width |-> w, height |-> h] :
        g \in BOOLEAN,
        f \in { <<>>, <<"photo">>, <<"photo", "JPG">>, <<"photo", "png", "exe">> },
        st \in {"unidentified", "truncated", "image"}, w \in Sides, h \in Sides }

InitCompress ==
    /\ stories = <<>>
    /\ tags = <<>>
    /\ story_tags = EmptyBag
    /\ stories_id_seq = 0
    /\ tags_id_seq = 0
    /\ session = [s \in Sessions |-> [is_admin |-> FALSE, liked_stories |-> {}]]
    /\ now = 0
    /\ last = NoAnswer
    /\ tx = <<>>
    /\ listing = NoListing
    /\ \E file \in Files :
          /\ ~file.given => file.filename = <<>>
          /\ file.stream # "image" => file.width = 1 /\ file.height = 1
          /\ call = [fn |-> "save_uploaded_image", in |-> file, out |-> "", pc |-> "called",
                     quality |-> 0, width |-> 0, height |-> 0, size |-> 0, opened |-> FALSE]

Rest == <<db, session, now, last, tx, listing>>

\* save_uploaded_image up to the call of compress_image_to_limit
CheckFile ==
    /\ call.pc = "called"
    /\ call' = IF ~call.in.given
               THEN [call EXCEPT !.pc = "returned", !.out = "None"]
               ELSE IF call.in.filename = <<>> \/ ~allowed_image(call.in.filename)
               THEN [call EXCEPT !.pc = "raised", !.out = "ValueError: format"]
               ELSE [call EXCEPT !.pc = "open"]
    /\ UNCHANGED Rest

\* Image.open(file_storage.stream)
OpenImage ==
    /\ call.pc = "open"
    /\ call' = IF call.in.stream = "unidentified"
               THEN [call EXCEPT !.pc = "raised", !.out = "ValueError: unidentified",
                                 !.opened = TRUE]
               ELSE [call EXCEPT !.pc = "convert", !.opened = TRUE]
    /\ UNCHANGED Rest

\* image.convert("RGB"), quality = 90, width, height = image.size
ConvertImage ==
    /\ call.pc = "convert"
    /\ call' = IF call.in.stream = "truncated"
               THEN [call EXCEPT !.pc = "raised", !.out = "OSError"]
               ELSE [call EXCEPT !.pc = "encode", !.quality = 90,
                                 !.width = call.in.width, !.height = call.in.height]
    /\ UNCHANGED Rest

\* image.save(buffer, format="JPEG", optimize=True, quality=quality)
Encode ==
    /\ call.pc = "encode"
    /\ \E size \in {1, MAX_IMAGE_SIZE, MAX_IMAGE_SIZE + 1} : call' = [call EXCEPT !.pc = "adjust", !.size = size]
    /\ UNCHANGED Rest

\* the rest of the loop body: the two breaks, the lower quality or the resize
Adjust ==
    /\ call.pc = "adjust"
    /\ call' =
          IF \/ call.size <= MAX_IMAGE_SIZE
             \/ (call.quality <= 40 /\ Max(call.width, call.height) <= 640)
          THEN [call EXCEPT !.pc = "after"]
          ELSE LET quality == IF call.quality > 40 THEN call.quality - 10 ELSE call.quality
                   width == IF call.quality > 40 THEN call.width ELSE Shrink(call.width)
                   height == IF call.quality > 40 THEN call.height ELSE Shrink(call.height)
               IN  [call EXCEPT !.quality = quality, !.width = width, !.height = height,
                                !.pc = IF quality <= 20 /\ Max(width, height) <= 480
                                       THEN "after" ELSE "encode"]
    /\ UNCHANGED Rest

\* after the loop: the error when the buffer is above the limit, else the bytes
Finish ==
    /\ call.pc = "after"
    /\ call' = IF call.size > MAX_IMAGE_SIZE
               THEN [call EXCEPT !.pc = "raised", !.out = "ValueError: too large"]
               ELSE [call EXCEPT !.pc = "returned", !.out = "uploads"]
    /\ UNCHANGED Rest

NextCompress == CheckFile \/ OpenImage \/ ConvertImage \/ Encode \/ Adjust \/ Finish

SpecCompress == InitCompress /\ [][NextCompress]_vars

\* the interpreter goes on running the function
SpecCompressFair == SpecCompress /\ WF_vars(NextCompress)

----------------------------------------------------------------------------
(* load_stories and build_story_payload: the tags of one story, through the    *)
(* two string_agg columns and back.                                             *)

\* the characters of tag names and of id::text, in the order the sort compares
Characters == <<"0", "1", "2", "3", "4", "5", "6", "7", "8", "9", "a", "b">>

Rank(c) == CHOOSE i \in DOMAIN Characters : Characters[i] = c

\* text comparison: the first character that differs decides, a prefix is smaller
RECURSIVE TextLess(_, _)
TextLess(a, b) ==
    IF b = <<>> THEN FALSE
    ELSE IF a = <<>> THEN TRUE
    ELSE IF Head(a) = Head(b) THEN TextLess(Tail(a), Tail(b))
    ELSE Rank(Head(a)) < Rank(Head(b))

\* t.id::text
RECURSIVE IdText(_)
IdText(n) == IF n < 10 THEN <<Characters[n + 1]>> ELSE Append(IdText(n \div 10), Characters[(n % 10) + 1])

\* int(tid): Some(n) for a text of decimal digits, None where int raises ValueError
\* (the empty text, a text with a character that is not a digit)
TextInt(t) ==
    LET value[i \in 0..Len(t)] == IF i = 0 THEN 0 ELSE 10 * value[i - 1] + (Rank(t[i]) - 1)
    IN  IF t # <<>> /\ \A i \in DOMAIN t : Rank(t[i]) <= 10 THEN Some(value[Len(t)]) ELSE None

\* the values of a DISTINCT aggregate: each once, sorted as text
RECURSIVE SortedTexts(_)
SortedTexts(texts) ==
    IF texts = {} THEN <<>>
    ELSE LET least == CHOOSE t \in texts : \A u \in texts : u = t \/ TextLess(t, u)
         IN  <<least>> \o SortedTexts(texts \ {least})

\* string_agg(..., '||')
RECURSIVE StringAgg(_)
StringAgg(texts) ==
    IF texts = <<>> THEN <<>>
    ELSE IF Len(texts) = 1 THEN texts[1]
    ELSE texts[1] \o <<"|", "|">> \o StringAgg(Tail(texts))

\* text.split("||"): cur is the piece being read
RECURSIVE SplitBars(_, _)
SplitBars(text, cur) ==
    IF text = <<>> THEN <<cur>>
    ELSE IF Len(text) >= 2 /\ text[1] = "|" /\ text[2] = "|"
         THEN <<cur>> \o SplitBars(SubSeq(text, 3, Len(text)), <<>>)
         ELSE SplitBars(Tail(text), Append(cur, Head(text)))

NonEmpty(piece) == piece # <<>>

\* the ids as the column tag_ids lists them
TagIdsColumn(tg, linked) == SortedTexts({IdText(t) : t \in linked})

\* the columns tag_names and tag_ids of the row of story sid
AggregatedRow(tg, st, sid) ==
    LET linked == {r[2] : r \in RowsOfStory(st, sid)} \cap DOMAIN tg
    IN  [tag_names |-> StringAgg(SortedTexts({tg[t] : t \in linked})),
         tag_ids |-> StringAgg(TagIdsColumn(tg, linked))]

\* story["tags"]: the ids and the names paired by position (zip stops at the
\* shorter list); a pair whose id int() rejects is skipped (except ValueError)
build_story_payload(row) ==
    LET names == SelectSeq(SplitBars(row.tag_names, <<>>), NonEmpty)
        ids == SelectSeq(SplitBars(row.tag_ids, <<>>), NonEmpty)
        n == IF Len(ids) <= Len(names) THEN Len(ids) ELSE Len(names)
        pairs == [i \in 1..n |-> [tid |-> ids[i], name |-> names[i]]]
        kept == SelectSeq(pairs, LAMBDA p : TextInt(p.tid) # None)
    IN  [i \in DOMAIN kept |-> [id |-> TextInt(kept[i].tid)[1], name |-> kept[i].name]]

PayloadTagIds == {1, 2, 10}

InitPayload ==
    /\ stories = (1 :> StoryRow(ValidName, <<"a">>, <<"b">>, 0))
    /\ stories_id_seq = 1
    /\ \E ids \in SUBSET PayloadTagIds : \E tg \in [ids -> { <<"a">>, <<"b">>, <<"a", "b">> }] :
          /\ \A i, j \in ids : i # j => tg[i] # tg[j]
          /\ tags = tg
          /\ tags_id_seq = CHOOSE m \in ids \cup {0} : \A k \in ids : k <= m
          /\ \E linked \in SUBSET ids : story_tags = SetToBag({<<1, t>> : t \in linked})
    /\ session = [s \in Sessions |-> [is_admin |-> FALSE, liked_stories |-> {}]]
    /\ now = 0
    /\ last = NoAnswer
    /\ tx = <<>>
    /\ listing = NoListing
    /\ call = [fn |-> "load_stories", in |-> 1, out |-> <<>>, pc |-> "called"]

\* load_stories for the one story: the query, then build_story_payload
LoadStories ==
    /\ call.fn = "load_stories" /\ call.pc = "called"
    /\ call' = [call EXCEPT !.pc = "returned",
                            !.out = build_story_payload(AggregatedRow(tags, story_tags, call.in))]
    /\ UNCHANGED <<db, session, now, last, tx, listing>>

NextPayload == LoadStories

SpecPayload == InitPayload /\ [][NextPayload]_vars

----------------------------------------------------------------------------
(* get_connection: the environment gives the URLs, the network decides which   *)
(* of them accept a connection.                                                 *)

\* DATABASE_URL, the RAILWAY_* variables and the two URLs with their defaults;
\* "" is a variable that is not set, or set to the empty text
Environments ==
    { [custom |-> c, is_railway |-> r, internal |-> i, external |-> e, reachable |-> up] :
        c \in {"", "custom"}, r \in BOOLEAN, i \in {"", "internal"}, e \in {"", "external"},
        up \in SUBSET {"custom", "internal", "external"} }

\* (mutant) the three URLs one after the other
CandidatesChain(env) == <<env.custom, env.internal, env.external>>

\* the list candidates
Candidates(env) ==
    IF env.custom # "" THEN <<env.custom>>
    ELSE (IF env.is_railway THEN <<env.internal>> ELSE <<>>) \o <<env.external>>

\* the for loop: empty URLs are skipped, the first connect that succeeds returns
RECURSIVE TryUrls(_, _, _)
TryUrls(urls, up, tried) ==
    IF urls = <<>> THEN [tried |-> tried, result |-> "RuntimeError"]
    ELSE IF Head(urls) = "" THEN TryUrls(Tail(urls), up, tried)
    ELSE IF Head(urls) \in up THEN [tried |-> Append(tried, Head(urls)), result |-> Head(urls)]
    ELSE TryUrls(Tail(urls), up, Append(tried, Head(urls)))

get_connection(env) == TryUrls(Candidates(env), env.reachable, <<>>)

InitConnect ==
    /\ stories = <<>>
    /\ tags = <<>>
    /\ story_tags = EmptyBag
    /\ stories_id_seq = 0
    /\ tags_id_seq = 0
    /\ session = [s \in Sessions |-> [is_admin |-> FALSE, liked_stories |-> {}]]
    /\ now = 0
    /\ last = NoAnswer
    /\ tx = <<>>
    /\ listing = NoListing
    /\ \E env \in Environments :
          call = [fn |-> "get_connection", in |-> env, pc |-> "called",
                  out |-> [tried |-> <<>>, result |-> ""]]

GetConnection ==
    /\ call.fn = "get_connection" /\ call.pc = "called"
    /\ call' = [call EXCEPT !.out = get_connection(call.in),
                            !.pc = IF get_connection(call.in).result = "RuntimeError"
                                   THEN "raised" ELSE "returned"]
    /\ UNCHANGED <<db, session, now, last, tx, listing>>

NextConnect == GetConnection

SpecConnect == InitConnect /\ [][NextConnect]_vars

----------------------------------------------------------------------------
(* migrate_to_postgres.py, run as a script: the SQLite tables are the input,   *)
(* the tables of the application are the destination.                           *)

MaxSourceId == 2

Tables == [stories |-> stories, tags |-> tags, story_tags |-> story_tags,
           stories_id_seq |-> stories_id_seq, tags_id_seq |-> tags_id_seq]

\* (mutant) the three TRUNCATE statements are left out
TruncatedNot == Tables

\* the three TRUNCATE TABLE ... RESTART IDENTITY CASCADE
Truncated ==
    [stories |-> <<>>, tags |-> <<>>, story_tags |-> EmptyBag,
     stories_id_seq |-> 0, tags_id_seq |-> 0]

\* COALESCE((SELECT MAX(id) FROM ...), 1)
MaxOf(ids) == IF ids = {} THEN 1 ELSE CHOOSE m \in ids : \A k \in ids : k <= m

\* the INSERT loops and the two setval on the truncated tables. The SELECTs of
\* lines 25-29 have no ORDER BY: tagOrder and linkOrder are the orders in which
\* the rows of tags and of story_tags come (the order of the stories rows makes
\* no difference, no INSERT of a story fails). The first INSERT that breaks a
\* constraint of the destination (tags.name UNIQUE, the two REFERENCES of
\* story_tags) ends the copy, and the transaction holds the rows inserted
\* before it
Copied(source, tagOrder, linkOrder) ==
    LET TagsUpTo(n) == [id \in {tagOrder[i] : i \in 1..n} |-> source.tags[id]]
        taken == {i \in DOMAIN tagOrder :
                     \E j \in 1..(i - 1) : source.tags[tagOrder[j]] = source.tags[tagOrder[i]]}
        dangling == {i \in DOMAIN linkOrder :
                        \/ linkOrder[i][1] \notin DOMAIN source.stories
                        \/ linkOrder[i][2] \notin DOMAIN source.tags}
        First(set) == CHOOSE i \in set : \A o \in set : i <= o
        filled == [Truncated EXCEPT !.stories = @ @@ source.stories]
    IN  IF taken # {}
        THEN [ok |-> FALSE, at |-> "tags",
              tables |-> [filled EXCEPT !.tags = @ @@ TagsUpTo(First(taken) - 1)]]
        ELSE IF dangling # {}
        THEN [ok |-> FALSE, at |-> "story_tags",
              tables |-> [filled EXCEPT
                             !.tags = @ @@ source.tags,
                             !.story_tags = @ (+) SetToBag({linkOrder[i] :
                                                    i \in 1..(First(dangling) - 1)})]]
        ELSE [ok |-> TRUE, at |-> "",
              tables |-> [filled EXCEPT
                             !.tags = @ @@ source.tags,
                             !.story_tags = @ (+) SetToBag(source.story_tags),
                             !.stories_id_seq = MaxOf(DOMAIN filled.stories),
                             !.tags_id_seq = MaxOf(DOMAIN filled.tags \cup DOMAIN source.tags)]]

\* (mutant) what the transaction did stays when it ends without a commit
RollbackKeepsWork(before, work) == work

\* with connect(...) as pg_conn left by an exception: the transaction is rolled
\* back, TRUNCATE, RESTART IDENTITY and setval included
Rollback(before, work) == before

\* the script is run (python migrate_to_postgres.py), or the function is called
\* in a module where the name DATABASE_URL is bound. SQLite files: FOREIGN KEY
\* clauses are not enforced there unless switched on, so a story_tags row may
\* name a story or a tag that is gone. The destination holds nothing, or rows
\* of an earlier run
InitMigrate ==
    /\ \E d \in { [stories |-> <<>>, tags |-> <<>>, story_tags |-> EmptyBag,
                   stories_id_seq |-> 0, tags_id_seq |-> 0],
                  [stories |-> (1 :> StoryRow(ValidName, <<"a">>, <<"b">>, 0)),
                   tags |-> (1 :> <<"z">>), story_tags |-> SetToBag({<<1, 1>>}),
                   stories_id_seq |-> 1, tags_id_seq |-> 1],
                  [stories |-> (3 :> StoryRow(ValidName, <<"a">>, <<"b">>, 0)),
                   tags |-> <<>>, story_tags |-> EmptyBag,
                   stories_id_seq |-> 3, tags_id_seq |-> 2] } :
          /\ stories = d.stories
          /\ tags = d.tags
          /\ story_tags = d.story_tags
          /\ stories_id_seq = d.stories_id_seq
          /\ tags_id_seq = d.tags_id_seq
          /\ \E S \in UNION {[ids -> { [StoryRow(ValidName, <<"a">>, <<"b">>, 0) EXCEPT
                                           !.likes = k, !.is_approved = k] : k \in 0..1 }] :
                                ids \in SUBSET (1..MaxSourceId)},
                T \in UNION {[ids -> {<<"x">>, <<"y">>}] : ids \in SUBSET (1..MaxSourceId)},
                L \in SUBSET {<<1, 1>>, <<MaxSourceId, 1>>},
                fn \in {"migrate_to_postgres.py", "migrate_sqlite_to_postgres"} :
                call = [fn |-> fn, in |-> [stories |-> S, tags |-> T, story_tags |-> L],
                        out |-> "", pc |-> "called", before |-> d, work |-> d]
    /\ session = [s \in Sessions |-> [is_admin |-> FALSE, liked_stories |-> {}]]
    /\ now = 0
    /\ last = NoAnswer
    /\ tx = <<>>
    /\ listing = NoListing

\* migrate_sqlite_to_postgres(sqlite_path) for a file that exists: one
\* transaction on pg_conn, committed at line 68 after the last statement, and
\* rolled back when a statement raises. call.work is what the transaction held
\* when it ended
migrate_sqlite_to_postgres ==
    /\ call.fn = "migrate_sqlite_to_postgres" /\ call.pc = "called"
    /\ \E tagOrder \in Perms(DOMAIN call.in.tags), linkOrder \in Perms(call.in.story_tags) :
          LET copy == Copied(call.in, tagOrder, linkOrder)
              t == IF copy.ok THEN copy.tables ELSE Rollback(Tables, copy.tables)
          IN  /\ call' = [call EXCEPT !.pc = IF copy.ok THEN "returned" ELSE "raised",
                                      !.out = IF copy.ok THEN "migrated" ELSE copy.at,
                                      !.work = copy.tables]
              /\ stories' = t.stories
              /\ tags' = t.tags
              /\ story_tags' = t.story_tags
              /\ stories_id_seq' = t.stories_id_seq
              /\ tags_id_seq' = t.tags_id_seq
    /\ UNCHANGED <<session, now, last, tx, listing>>

\* python migrate_to_postgres.py: line 8 is from app import DATABASE_PATH,
\* DATABASE_URL, init_db, and app.py binds no module-level name DATABASE_URL
\* (lines 23-31 bind CUSTOM_DB_URL, INTERNAL_DB_URL and EXTERNAL_DB_URL): the
\* import raises before the function is defined
MigrateScript ==
    /\ call.fn = "migrate_to_postgres.py" /\ call.pc = "called"
    /\ call' = [call EXCEPT !.pc = "raised", !.out = "ImportError"]
    /\ UNCHANGED <<db, session, now, last, tx, listing>>

NextMigrate == MigrateScript \/ migrate_sqlite_to_postgres

SpecMigrate == InitMigrate /\ [][NextMigrate]_vars

-----------------------------------------------------------------------------
(* Sessions and likes. *)

\* what the browser of s sends to /admin next to the likes: the login form, with
\* the password when s is the teacher, and the approve and delete_story forms of
\* the page
SessionForms(s) ==
    IF session[s].is_admin
    THEN { AdminForm("POST", "", a, Some(k)) : a \in {"approve", "delete_story"},
                                               k \in 1..MaxStoryId }
    ELSE IF s = "s1" THEN LoginForms
    ELSE {f \in LoginForms : f.password # ADMIN_PASSWORD}

\* submissions without tags, the requests of the teacher's browser and the likes
\* of two browsers for the first story, on two workers
NextSession ==
    \/ \E r \in Requests :
          Free(r) /\ TxBegin(r, Form(ValidName, <<"a">>, <<"b">>, <<>>, <<>>, <<>>))
    \/ \E r \in Requests : \E form \in SessionForms("s1") :
          Free(r) /\ AdminPanel(r, "s1", form)
    \/ \E r \in Requests : Free(r) /\ AdminLogout(r, "s1")
    \/ \E r \in Requests, s \in Sessions : Free(r) /\ LikeRead(r, s, 1)
    \/ \E r \in Requests : TxStory(r)
    \/ \E r \in Requests : TxReplace(r)
    \/ \E r \in Requests : TxCommit(r)
    \/ \E r \in Requests : AdminDeleteStory(r)
    \/ \E r \in Requests : AdminStamp(r)
    \/ \E r \in Requests : AdminUpdate(r)
    \/ \E r \in Requests : AdminCommit(r)
    \/ \E r \in Requests : SessionStore(r)
    \/ \E r \in Requests : LikeSelect(r)
    \/ \E r \in Requests : LikeUpdate(r)
    \/ \E r \in Requests : LikeCommit(r)
    \/ \E r \in Requests : LikeStore(r)

SpecSession == Init /\ [][NextSession]_vars

\* submissions without tags and with the new tag x, and the teacher's approve
\* and delete_story forms, while the clock runs
NextApprove ==
    \/ \E r \in Requests, newRaw \in {<<>>, <<"x">>} :
          Free(r) /\ TxBegin(r, Form(ValidName, <<"a">>, <<"b">>, <<>>, newRaw, <<>>))
    \/ \E r \in Requests : \E form \in SessionForms("s1") :
          Free(r) /\ AdminPanel(r, "s1", form)
    \/ \E r \in Requests : TxSelect(r)
    \/ \E r \in Requests : TxInsert(r)
    \/ \E r \in Requests : TxWake(r)
    \/ \E r \in Requests : TxStory(r)
    \/ \E r \in Requests : TxReplace(r)
    \/ \E r \in Requests : TxLink(r)
    \/ \E r \in Requests : TxCommit(r)
    \/ \E r \in Requests : AdminDeleteStory(r)
    \/ \E r \in Requests : AdminCascade(r)
    \/ \E r \in Requests : AdminStamp(r)
    \/ \E r \in Requests : AdminUpdate(r)
    \/ \E r \in Requests : AdminCommit(r)
    \/ \E r \in Requests : SessionStore(r)
    \/ Tick

SpecApprove == Init /\ [][NextApprove]_vars

\* the same requests when a browser waits for the answer before it sends again
NextLike ==
    \/ \E r \in Requests :
          Free(r) /\ TxBegin(r, Form(ValidName, <<"a">>, <<"b">>, <<>>, <<>>, <<>>))
    \/ \E r \in Requests, s \in Sessions : \E form \in SessionForms(s) :
          Free(r) /\ ~Busy(s) /\ AdminPanel(r, s, form)
    \/ \E r \in Requests, s \in Sessions : Free(r) /\ ~Busy(s) /\ AdminLogout(r, s)
    \/ \E r \in Requests, s \in Sessions, sid \in 1..MaxStoryId :
          Free(r) /\ ~Busy(s) /\ LikeRead(r, s, sid)
    \/ \E r \in Requests : TxStory(r)
    \/ \E r \in Requests : TxReplace(r)
    \/ \E r \in Requests : TxCommit(r)
    \/ \E r \in Requests : AdminDeleteStory(r)
    \/ \E r \in Requests : AdminStamp(r)
    \/ \E r \in Requests : AdminUpdate(r)
    \/ \E r \in Requests : AdminCommit(r)
    \/ \E r \in Requests : SessionStore(r)
    \/ \E r \in Requests : LikeSelect(r)
    \/ \E r \in Requests : LikeUpdate(r)
    \/ \E r \in Requests : LikeCommit(r)
    \/ \E r \in Requests : LikeStore(r)

SpecLike == Init /\ [][NextLike]_vars

\* the stories and sessions a pair of like requests can find: story 1 approved,
\* liked by the sessions whose sets hold its id
InitRace ==
    /\ \E likers \in SUBSET Sessions :
          /\ stories = <<[StoryRow(ValidName, <<"a">>, <<"b">>, 0) EXCEPT
                             !.is_approved = 1, !.likes = Cardinality(likers)]>>
          /\ session = [s \in Sessions |->
                           [is_admin |-> FALSE,
                            liked_stories |-> IF s \in likers THEN {1} ELSE {}]]
    /\ tags = <<>>
    /\ story_tags = EmptyBag
    /\ stories_id_seq = 1
    /\ tags_id_seq = 0
    /\ now = 0
    /\ last = NoAnswer
    /\ tx = [r \in Requests |-> IdleTx]
    /\ listing = NoListing
    /\ call = [NoCall EXCEPT !.fn = "like_story", !.in = <<stories[1].likes, session>>]

\* two like requests for the story, by any sessions; call.out holds the answers
NextRace ==
    \/ \E r \in Requests, s \in Sessions :
          /\ Free(r)
          /\ Len(call.out) + Cardinality({o \in Requests : InFlight(o)}) < 2
          /\ LikeRead(r, s, 1)
    \/ \E r \in Requests : LikeSelect(r)
    \/ \E r \in Requests : LikeUpdate(r)
    \/ \E r \in Requests : LikeCommit(r)
    \/ \E r \in Requests : LikeStore(r)

SpecRace == InitRace /\ [][NextRace]_vars

----------------------------------------------------------------------------
(* Claims. *)

\* the ids of the stories GET / lists for the parameters
Listed(tag, q, sort) ==
    UNION {{l[i].id : i \in DOMAIN l} : l \in Index(stories, story_tags, tag, q, sort)}

ListedSomewhere ==
    UNION {Listed(tag, q, sort) : tag \in { None, Some(0), Some(1) },
                                  q \in { <<>>, <<" ", "A">>, <<"_">> }, sort \in SortParams}

\* the listing without tag and q
Public == Listed(None, <<>>, "likes")

ApproveOf(req, id) == req.op = "admin" /\ req.branch = "approve" /\ req.id = Some(id)

Approved == {id \in DOMAIN stories : stories[id].is_approved = 1}

C1_OnlyApproved ==
    /\ \A id \in ListedSomewhere : id \in DOMAIN stories /\ stories[id].is_approved = 1
    /\ Public = Approved

C1_Step ==
    \A id \in 1..MaxStoryId :
        \* submit creates a story unapproved
        /\ (id \in DOMAIN stories' /\ id \notin DOMAIN stories) => id \notin Approved'
        \* only an approve that targets the story makes it approved
        /\ (id \in Approved' /\ id \notin Approved) => ApproveOf(last', id)
        \* an approve of a story that was there when it was sent makes it approved
        /\ (ApproveOf(last', id) /\ id \in last'.pre.ids /\ id \in DOMAIN stories')
              => id \in Approved'
        \* and it stays approved until it is deleted
        /\ (id \in Approved /\ id \in DOMAIN stories') => id \in Approved'

\* C1: for every tag, q and sort, GET / lists only stories whose is_approved is
\* 1, and without tag and q it lists every such story; a story that submit
\* created is unapproved, so in no listing, until an admin approve targets it,
\* and from that approve on it is approved, so in the unfiltered listing, until
\* it is deleted.
C1_ListingOnlyApproved == []C1_OnlyApproved /\ [][C1_Step]_vars

\* an approve has put the story it names into the listing while another story,
\* submitted and not approved, is left out
C1_Witness ==
    /\ last.op = "admin" /\ last.branch = "approve"
    /\ \E id \in DOMAIN stories : last.id = Some(id) /\ id \in Public
    /\ \E other \in DOMAIN stories : stories[other].is_approved = 0 /\ other \notin ListedSomewhere

\* the two answers are a like and then an unlike of one session: the second
\* request read the session that the first one wrote
RoundTrip ==
    /\ Len(call.out) = 2
    /\ call.out[1].s = call.out[2].s
    /\ call.out[1].branch = "liked" /\ call.out[2].branch = "unliked"

\* C2: a like and then an unlike of one approved story by one session, with no
\* request between them, leave its likes and the session's liked set as they
\* were before the like; likes is never negative, and the decrement of the
\* unlike branch stops at 0.
C2_LikeRoundTrip ==
    /\ \A id \in DOMAIN stories : stories[id].likes >= 0
    /\ \A n \in 0..Cardinality(Sessions) :
          LikesAfterUnlike(n) >= 0 /\ (n = 0 => LikesAfterUnlike(n) = 0)
    /\ RoundTrip =>
          /\ stories[1].likes = call.in[1]
          /\ session[call.out[1].s].liked_stories = call.in[2][call.out[1].s].liked_stories

\* a session has liked and unliked the story, which carried the like of the
\* other session
C2_Witness ==
    /\ RoundTrip
    /\ call.in[1] = 1
    /\ stories[1].likes = 1

\* C3 as claimed: after an admin delete_tag for the id t has been answered, the
\* tag row t is gone, every story that had a story_tags row for t immediately
\* before the action is gone, also those that carried other tags, and no
\* story_tags row refers to t or to a deleted story. The state before the
\* action is the one the first statement of the handler reads: last.pre.ids
\* holds the stories that had a row for t when the SELECT ran.
C3_DeleteTagRemovesStories ==
    (last.op = "admin" /\ last.branch = "delete_tag") =>
        /\ last.id[1] \notin DOMAIN tags
        /\ last.pre.ids \cap DOMAIN stories = {}
        /\ \A r \in BagToSet(story_tags) : r[2] # last.id[1] /\ r[1] \notin last.pre.ids

\* C3 amended: after an admin delete_tag has been answered for the id t of a tag
\* that was there when the handler ran its SELECT, the tag row t is gone, every
\* story that had a story_tags row for t at that SELECT is gone, also those
\* that carried other tags, and no story_tags row refers to t or to one of
\* these stories.
C3_DeleteExistingTagRemovesStories ==
    (last.op = "admin" /\ last.branch = "delete_tag" /\ last.pre.list # <<>>) =>
        /\ last.id[1] \notin DOMAIN tags
        /\ last.pre.ids \cap DOMAIN stories = {}
        /\ \A r \in BagToSet(story_tags) : r[2] # last.id[1] /\ r[1] \notin last.pre.ids

\* a delete_tag has been answered that found the tag on two stories, both with
\* another tag as well, and the other tag is still there
C3_Witness ==
    /\ last.op = "admin" /\ last.branch = "delete_tag" /\ last.pre.list # <<>>
    /\ Cardinality(last.pre.ids) = 2 /\ last.pre.n = 2
    /\ tags # <<>>

C4_Step ==
    /\ \A s \in Sessions :
          \* the flag is set only by the login branch of a POST to /admin, which
          \* the exact password selects
          /\ (~session[s].is_admin /\ session'[s].is_admin) =>
                last'.op = "admin" /\ last'.branch = "login" /\ last'.s = s
          \* and cleared only by the logout
          /\ (session[s].is_admin /\ ~session'[s].is_admin) =>
                last'.op = "logout" /\ last'.s = s
    \* a POST to /admin without the flag changes no table
    /\ (last'.op = "admin" /\ last'.branch \in {"login", "login_failed"})
          => UNCHANGED <<stories, tags, story_tags>>

\* C4: is_admin becomes true only through a POST to /admin whose password is
\* exactly the secret, and false again only through POST /admin/logout; a POST to
\* /admin from a session without the flag approves and deletes nothing, whatever
\* action and id it carries.
C4_AdminSession == [][C4_Step]_vars

C6_Step ==
    \A r \in Requests :
        (tx[r].pc = "like_select" /\ tx'[r] # tx[r] /\ tx[r].sid \notin Approved) =>
            /\ stories' = stories
            /\ session' = session
            /\ tx'[r].pc = "idle"
            /\ last'.op = "like" /\ last'.resp = "redirect"

\* C6: a like request for a story id that does not exist, or whose story is not
\* approved, leaves the likes of every story and the session's liked set as they
\* were, and answers with a redirect.
C6_LikeMissingChangesNothing == [][C6_Step]_vars

\* a session has asked to like a story that exists and is not approved, while
\* the teacher is logged in
C6_Witness ==
    /\ last.op = "like" /\ last.branch = "missing" /\ last.resp = "redirect"
    /\ last.id[1] \in DOMAIN stories /\ stories[last.id[1]].is_approved = 0
    /\ session["s1"].is_admin

NoDuplicates(s) == \A i, j \in DOMAIN s : i # j => s[i] # s[j]

\* C7: story_tags holds no (story_id, tag_id) pair twice, and every row names
\* an existing story and an existing tag; after a story or a tag is deleted no
\* row names it; after a successful submit the tags of the new story are exactly
\* the list ensure_tag_ids returned, which names no tag twice.
C7_StoryTagsConsistent ==
    /\ \A r \in BagToSet(story_tags) :
          CopiesIn(r, story_tags) = 1 /\ r[1] \in DOMAIN stories /\ r[2] \in DOMAIN tags
    \* a delete_story for a story that was there when the request arrived, a
    \* delete_tag for a tag that was there when the handler ran its SELECT
    /\ (last.op = "admin" /\ last.branch = "delete_story" /\ last.pre.ids # {}) =>
          last.id[1] \notin DOMAIN stories /\ RowsOfStory(story_tags, last.id[1]) = {}
    /\ (last.op = "admin" /\ last.branch = "delete_tag" /\ last.pre.list # <<>>) =>
          last.id[1] \notin DOMAIN tags /\ RowsOfTag(story_tags, last.id[1]) = {}
    /\ (last.op = "submit" /\ last.branch = "saved") =>
          /\ NoDuplicates(last.pre.list)
          /\ {r[2] : r \in RowsOfStory(story_tags, last.id[1])} = Range(last.pre.list)

\* a submit that selected a tag twice and named a new one has saved a story with
\* two tags, next to another story that carries tags
C7_Witness ==
    /\ last.op = "submit" /\ last.branch = "saved" /\ Len(last.pre.list) = 2
    /\ \E r \in BagToSet(story_tags) : r[1] # last.id[1]

\* what the claim says of the step that answers a POST /submit
C8_Step ==
    last'.op = "submit" =>
        IF last'.branch \notin {"saved", "rolled_back"}
        THEN /\ UNCHANGED <<stories, tags, story_tags>>
             /\ last'.resp = "form"
        ELSE /\ Cardinality(DOMAIN stories' \ DOMAIN stories) = 1
             /\ DOMAIN stories \subseteq DOMAIN stories'
             /\ \A id \in DOMAIN stories' \ DOMAIN stories :
                   stories'[id].likes = 0 /\ stories'[id].is_approved = 0

\* C8: a POST /submit that fails validation creates no story, tag or story_tags
\* row and answers with the form and an error message instead of raising; a POST
\* that passes validation creates exactly one story, with likes 0 and
\* is_approved 0.
C8_SubmitValidation == [][C8_Step]_vars

\* this step commits an approve that was sent for the story id when it existed,
\* and that found it
IsApproveOf(r, id) ==
    /\ tx[r].pc = "admin_commit" /\ tx'[r].pc = "idle"
    /\ last'.op = "admin" /\ last'.branch = "approve" /\ last'.id = Some(id)
    /\ id \in last'.pre.ids /\ id \in DOMAIN stories

C9_StepStrict ==
    \A r \in Requests, id \in 1..MaxStoryId :
        IsApproveOf(r, id) =>
            stories'[id].is_approved = 1 /\ stories'[id].updated_at > stories[id].updated_at

\* C9 as claimed: an approve of an existing story sets is_approved to 1 and sets
\* updated_at to a value strictly later than the one it had.
C9_ApproveAdvancesStrictly == [][C9_StepStrict]_vars

C9_Step ==
    \A r \in Requests, id \in 1..MaxStoryId :
        IsApproveOf(r, id) =>
            /\ stories'[id].is_approved = 1
            /\ stories'[id].updated_at = tx[r].write[1]
            /\ stories'[id].updated_at <= now
            /\ (stories'[id].updated_at > stories[id].updated_at)
                  <=> (tx[r].write[1] > stories[id].updated_at)

\* C9 amended: an approve of an existing story sets is_approved to 1 and sets
\* updated_at to the time, in whole seconds, that the handler read before it sent
\* the UPDATE: a later value than the story had exactly when that time is in a
\* later second, the same value when it is in the same second, an earlier one
\* when another approve that read the clock later has written in between.
C9_ApproveRefreshesUpdatedAt == [][C9_Step]_vars

\* an approve has refreshed a story to a second later than another story's
C9_Witness ==
    /\ last.op = "admin" /\ last.branch = "approve"
    /\ last.id # None /\ last.id[1] \in DOMAIN stories
    /\ stories[last.id[1]].updated_at = now /\ now > 0
    /\ \E other \in DOMAIN stories : stories[other].updated_at < now

\* ensure_tag_ids called twice for one new name on the committed tables
TwiceFor(name) ==
    LET first == ensure_tag_ids(tags, tags_id_seq, <<>>, <<name>>)
        second == ensure_tag_ids(first.tags, first.seq, <<>>, <<name>>)
    IN  [first |-> first, second |-> second]

TagNames == { <<"x">>, <<"y">>, <<"z">> }

\* C5: a second call of ensure_tag_ids with the same new name returns the id of
\* the row the first call created or found and inserts no row; in every state,
\* also those that interleaved submits of one new name reach, no two rows of tags
\* have the same name.
C5_TagNamesUnique ==
    /\ \A i, j \in DOMAIN tags : i # j => tags[i] # tags[j]
    /\ \A name \in TagNames :
          LET c == TwiceFor(name)
          IN  /\ c.first.ok /\ c.second.ok
              /\ Len(c.first.ids) = 1
              /\ c.first.tags[c.first.ids[1]] = name
              /\ c.second.ids = c.first.ids
              /\ c.second.tags = c.first.tags

\* two submits have inserted the same new name at the same time: one has
\* committed its row, the INSERT of the other has failed
C5_Witness ==
    /\ last.op = "submit" /\ last.branch = "rolled_back" /\ last.arg = "unique"
    /\ \E id \in DOMAIN tags : tags[id] = <<"x">>
    /\ Cardinality(DOMAIN tags) = 2

\* the most occurrences of needle in hay no two of which overlap
Occurrences(hay, needle) ==
    LET starts == {i \in 1..(Len(hay) - Len(needle) + 1) :
                      SubSeq(hay, i, i + Len(needle) - 1) = needle}
        apart == {P \in SUBSET starts : \A i, j \in P : i < j => j - i >= Len(needle)}
    IN  CHOOSE n \in 0..Len(hay) :
            /\ \E P \in apart : Cardinality(P) = n
            /\ \A P \in apart : Cardinality(P) <= n

InTitle(id) == Occurrences(LowerStr(stories[id].title), LowerStr(Strip(listing.q)))
InBody(id) == Occurrences(LowerStr(stories[id].body), LowerStr(Strip(listing.q)))
InName(id) == Occurrences(LowerStr(stories[id].name), LowerStr(Strip(listing.q)))

\* the second component of the sort key of the listed story
Second(id) == IF listing.sort = "latest" THEN stories[id].updated_at ELSE stories[id].likes

\* the relevance formula and the descending order of the page
RelevanceAndOrder ==
    LET L == listing.stories
    IN  /\ \A i \in DOMAIN L :
              L[i].relevance = 2 * InTitle(L[i].id) + InBody(L[i].id) + InName(L[i].id)
        /\ \A i, j \in DOMAIN L :
              i < j => \/ L[i].relevance > L[j].relevance
                       \/ /\ L[i].relevance = L[j].relevance
                          /\ Second(L[i].id) >= Second(L[j].id)

\* C10 as stated, the two stories read as the specification describes them (the
\* query twice in the title and never in the body, against once in the body and
\* never in the title): with a query, the relevance is 2 x title + body + name
\* occurrences, the page is in descending (relevance, likes) or (relevance,
\* updated_at) order, and with equal likes the first story is above the second.
C10_SearchRanking ==
    Strip(listing.q) # <<>> =>
        /\ RelevanceAndOrder
        /\ \A i, j \in DOMAIN listing.stories :
              LET a == listing.stories[i].id
                  b == listing.stories[j].id
              IN  (/\ stories[a].likes = stories[b].likes
                   /\ InTitle(a) = 2 /\ InBody(a) = 0
                   /\ InBody(b) = 1 /\ InTitle(b) = 0) => i < j

\* C10, amended: the relevance formula and the order hold as stated; with equal
\* likes a story whose title contains the query twice is above a story whose body
\* contains it once and whose title and name do not contain it.
C10_SearchRankingNameFree ==
    Strip(listing.q) # <<>> =>
        /\ RelevanceAndOrder
        /\ \A i, j \in DOMAIN listing.stories :
              LET a == listing.stories[i].id
                  b == listing.stories[j].id
              IN  (/\ stories[a].likes = stories[b].likes
                   /\ InTitle(a) = 2
                   /\ InBody(b) = 1 /\ InTitle(b) = 0 /\ InName(b) = 0) => i < j

\* a search has listed the story with the query twice in its title above the
\* story with the query once in its body, which the ORDER BY alone puts first
C10_Witness ==
    /\ Strip(listing.q) # <<>>
    /\ Len(listing.stories) = 2
    /\ LET a == listing.stories[1].id
           b == listing.stories[2].id
       IN  /\ stories[a].likes = stories[b].likes
           /\ InTitle(a) = 2
           /\ InBody(b) = 1 /\ InTitle(b) = 0 /\ InName(b) = 0
           /\ stories[b].updated_at > stories[a].updated_at
           /\ listing.stories[1].relevance = 4 + InBody(a) + InName(a)
           /\ listing.stories[2].relevance = 1

\* the maximal stretches of raw without a comma or whitespace, as <<first, last>>
Stretches(raw) ==
    {r \in (1..Len(raw)) \X (1..Len(raw)) :
        /\ r[1] <= r[2]
        /\ \A k \in r[1]..r[2] : raw[k] # "," /\ raw[k] \notin {" ", "\t", "\n"}
        /\ (r[1] > 1 => raw[r[1] - 1] = "," \/ raw[r[1] - 1] \in {" ", "\t", "\n"})
        /\ (r[2] < Len(raw) => raw[r[2] + 1] = "," \/ raw[r[2] + 1] \in {" ", "\t", "\n"})}

\* where the piece is first seen in raw
FirstAt(raw, piece) ==
    CHOOSE k \in 1..Len(raw) :
        /\ \E r \in Stretches(raw) : r[1] = k /\ SubSeq(raw, r[1], r[2]) = piece
        /\ \A r \in Stretches(raw) : SubSeq(raw, r[1], r[2]) = piece => r[1] >= k

\* C11: parse_new_tag_names returns the non-empty pieces between commas and
\* whitespace, each once, in the order in which they are first seen; "a, a b,, b"
\* gives <<"a", "b">> and the empty text gives the empty list.
C11_ParseNewTagNames ==
    (call.fn = "parse_new_tag_names" /\ call.pc = "returned") =>
        LET raw == call.in
            out == call.out
            pieces == {SubSeq(raw, r[1], r[2]) : r \in Stretches(raw)}
        IN  /\ {out[i] : i \in DOMAIN out} = pieces
            /\ Len(out) = Cardinality(pieces)
            /\ \A i, j \in DOMAIN out : i < j => FirstAt(raw, out[i]) < FirstAt(raw, out[j])
            /\ (raw = ExampleRaw => out = << <<"a">>, <<"b">> >>)
            /\ (raw = <<>> => out = <<>>)

\* the call has returned two names from a text that repeats one of them
C11_Witness ==
    /\ call.fn = "parse_new_tag_names" /\ call.pc = "returned"
    /\ call.in = ExampleRaw
    /\ call.out = << <<"a">>, <<"b">> >>

\* the call has ended, in a return or in an exception
Ended == call.pc \in {"returned", "raised"}

\* C12: a decodable image ends in a buffer of at most 512 KiB or in the
\* too-large error, never in a larger buffer; bytes that cannot be decoded end in
\* the invalid-image error, not in an unhandled failure; a file whose extension is
\* not one of png, jpg, jpeg, gif, webp is rejected before any decoding.
C12_CompressionOutcome ==
    (call.fn = "save_uploaded_image" /\ Ended /\ call.in.given) =>
        /\ (call.out = "uploads" => call.size <= 524288)
        /\ (call.opened /\ call.in.stream = "image") =>
              call.out \in {"uploads", "ValueError: too large"}
        /\ (call.opened /\ call.in.stream # "image") => call.out = "ValueError: unidentified"
        /\ ~allowed_image(call.in.filename) => (~call.opened /\ call.out = "ValueError: format")

\* the loop of compress_image_to_limit is running
InLoop == call.fn = "save_uploaded_image" /\ call.pc \in {"encode", "adjust"}

C16_Quality ==
    (call.fn = "save_uploaded_image" /\ call.pc \in {"encode", "adjust", "after"}) =>
        call.quality \in {90, 80, 70, 60, 50, 40}

C16_Step ==
    InLoop =>
        \* the quality goes down in steps of 10
        /\ call'.quality \in {call.quality, call.quality - 10}
        \* a side changes only at quality 40, to 90% of its value and at least 1
        /\ (call'.width # call.width \/ call'.height # call.height) =>
              /\ call.quality = 40 /\ call'.quality = 40
              /\ call'.width = (IF call.width < 2 THEN 1 ELSE (call.width * 9) \div 10)
              /\ call'.height = (IF call.height < 2 THEN 1 ELSE (call.height * 9) \div 10)
        \* the loop is left under one of the three conditions
        /\ call'.pc = "after" =>
              \/ call.size <= 524288
              \/ (call'.quality <= 40 /\ call'.width <= 640 /\ call'.height <= 640)
              \/ (call'.quality <= 20 /\ call'.width <= 480 /\ call'.height <= 480)
        \* and it is left once the size fits, or once quality 40 and 640 are reached
        /\ (call.pc = "adjust"
            /\ (\/ call.size <= 524288
                \/ (call.quality <= 40 /\ call.width <= 640 /\ call.height <= 640)))
              => call'.pc = "after"

\* C16: the compression loop ends for every size of the image and whatever
\* sizes the encoder returns; the quality goes 90, 80, ..., 40 and not below; the
\* sides are reduced, each to max(1, 90%), only at quality 40; the loop is left
\* when the encoded size is within the limit, or at quality <= 40 with the longer
\* side <= 640, or at quality <= 20 with the longer side <= 480.
C16_LoopTerminates == []C16_Quality /\ [][C16_Step]_vars /\ <>Ended

\* the encoder never got under the limit: the loop went down to quality 40,
\* shrank a picture wider than 800 until it was within 640, and ended
C16_Witness ==
    /\ call.fn = "save_uploaded_image" /\ call.pc = "raised"
    /\ call.out = "ValueError: too large"
    /\ call.in.width > 800 /\ call.width < call.in.width
    /\ call.quality = 40 /\ call.width <= 640 /\ call.height <= 640

\* the run of the script or the call of the function has ended
MigrationEnded == call.fn \in {"migrate_to_postgres.py", "migrate_sqlite_to_postgres"}
                  /\ call.pc \in {"returned", "raised"}

\* the destination holds exactly the rows of the source, and the next id of each
\* sequence is above every id copied
HoldsSource(t, source) ==
    /\ t.stories = source.stories
    /\ t.tags = source.tags
    /\ t.story_tags = SetToBag(source.story_tags)
    /\ \A id \in DOMAIN source.stories : t.stories_id_seq + 1 > id
    /\ \A id \in DOMAIN source.tags : t.tags_id_seq + 1 > id
    /\ (source.stories # <<>> => t.stories_id_seq \in DOMAIN source.stories)
    /\ (source.tags # <<>> => t.tags_id_seq \in DOMAIN source.tags)

\* C13: a completed migration leaves in stories, tags and story_tags exactly the
\* rows of the SQLite tables with their ids, whatever the destination held, and
\* the two sequences at the largest id, so that the next story or tag gets a
\* larger id.
C13_MigrationCopies ==
    (MigrationEnded /\ call.pc = "returned") => HoldsSource(Tables, call.in)

\* a migration has completed on a destination that held a story with an id the
\* source does not have, from a source with two stories, two tags and two links
C13_Witness ==
    /\ MigrationEnded /\ call.pc = "returned"
    /\ 3 \in DOMAIN call.before.stories
    /\ Cardinality(DOMAIN stories) = 2 /\ Cardinality(DOMAIN tags) = 2
    /\ BagCardinality(story_tags) = 2

\* C18 as claimed, for the failure it names: a run in which an INSERT fails
\* part-way through the copy leaves the destination truncated in part: the rows
\* it held before the run are not back.
C18_FailureLeavesTruncated ==
    (/\ MigrationEnded /\ call.pc = "raised" /\ call.out \in {"tags", "story_tags"}
     /\ call.before.stories # <<>>) =>
        \E id \in DOMAIN call.before.stories : id \notin DOMAIN stories

\* C18 amended: a migration that fails before completion leaves the tables
\* and the sequences of the destination as they were before the run.
C18_FailureChangesNothing ==
    (MigrationEnded /\ call.pc = "raised") => Tables = call.before

\* an INSERT INTO story_tags has failed part-way through the copy: the
\* transaction had truncated a destination that held a story, a tag and their
\* link, and had inserted the stories, the tags and one story_tags row of the
\* source; the destination holds what it held before the run
C18_Witness ==
    /\ call.fn = "migrate_sqlite_to_postgres" /\ call.pc = "raised"
    /\ call.out = "story_tags"
    /\ call.before.stories # <<>> /\ call.before.tags # <<>>
    /\ call.work.stories = call.in.stories /\ call.work.stories # call.before.stories
    /\ BagCardinality(call.work.story_tags) = 1
    /\ <<1, 1>> \notin BagToSet(call.work.story_tags)
    /\ Tables = call.before

\* get_connection has ended
Connected == call.fn = "get_connection" /\ call.pc \in {"returned", "raised"}

\* the first URL of the list that is set and reachable, or "RuntimeError"
FirstReachable(urls, up) ==
    LET good == {i \in DOMAIN urls : urls[i] # "" /\ urls[i] \in up}
    IN  IF good = {} THEN "RuntimeError"
        ELSE urls[CHOOSE i \in good : \A j \in good : i <= j]

\* C14 as claimed: the URLs are tried in the order override, internal, external,
\* the first that connects is returned, and the fatal error is raised only when
\* none of the three can be reached.
C14_FixedFallbackChain ==
    Connected =>
        LET env == call.in
        IN  call.out.result = FirstReachable(<<env.custom, env.internal, env.external>>,
                                             env.reachable)

\* C14 amended: with an override only the override is tried; without one the
\* internal URL is tried only on Railway, and then the external URL; the first
\* that connects is returned, and the fatal error is raised exactly when none of
\* the URLs tried connects.
C14_OverrideIsExclusive ==
    Connected =>
        LET env == call.in
            urls == IF env.custom # "" THEN <<env.custom>>
                    ELSE IF env.is_railway THEN <<env.internal, env.external>>
                    ELSE <<env.external>>
        IN  /\ call.out.result = FirstReachable(urls, env.reachable)
            /\ \A i \in DOMAIN call.out.tried :
                  /\ \E k \in DOMAIN urls : urls[k] = call.out.tried[i]
                  /\ i < Len(call.out.tried) => call.out.tried[i] \notin env.reachable
            /\ (call.pc = "raised") <=> (\A k \in DOMAIN urls :
                                            urls[k] = "" \/ urls[k] \notin env.reachable)

\* the override is set and cannot be reached, the external URL can: the fatal
\* error is raised after the override alone was tried
C14_Witness ==
    /\ Connected /\ call.pc = "raised"
    /\ call.out.tried = <<"custom">>
    /\ call.in.external = "external" /\ "external" \in call.in.reachable

\* C15: the tags of a story that load_stories returns are exactly the tags
\* linked to it through story_tags, and every entry carries the id of a tag
\* together with the name of that tag, whatever ids and names the tags have.
C15_TagsPairedWithOwnNames ==
    (call.fn = "load_stories" /\ call.pc = "returned") =>
        LET linked == {r[2] : r \in {q \in BagToSet(story_tags) : q[1] = call.in}}
            out == call.out
        IN  /\ {out[i].id : i \in DOMAIN out} = linked
            /\ Len(out) = Cardinality(linked)
            /\ \A i \in DOMAIN out : out[i].id \in DOMAIN tags /\ out[i].name = tags[out[i].id]

\* ---- C17 ----
\* the story_tags rows that do not belong to story id
RowsNotOf(id) ==
    [r \in {q \in BagToSet(story_tags) : q[1] # id} |-> story_tags[r]]

\* the commit of an approve or delete_story for the story id, which existed or
\* did not exist when the statement ran
C17_FrameOf(action, id, found) ==
    /\ tags' = tags
    /\ \A s \in DOMAIN session : session'[s].liked_stories = session[s].liked_stories
    /\ IF ~found
       THEN stories' = stories /\ story_tags' = story_tags
       ELSE IF action = "delete_story"
            THEN /\ DOMAIN stories' = DOMAIN stories \ {id}
                 /\ \A o \in DOMAIN stories' : stories'[o] = stories[o]
                 /\ story_tags' = RowsNotOf(id)
            ELSE /\ DOMAIN stories' = DOMAIN stories
                 /\ \A o \in DOMAIN stories \ {id} : stories'[o] = stories[o]
                 /\ stories'[id] = [stories[id] EXCEPT
                                        !.is_approved = stories'[id].is_approved,
                                        !.updated_at = stories'[id].updated_at]
                 /\ story_tags' = story_tags

C17_Step ==
    /\ (last'.op = "admin" /\ last'.branch = "missing_id") =>
          UNCHANGED <<stories, tags, story_tags, session>>
    /\ \A r \in Requests :
          (/\ tx[r].pc = "admin_commit" /\ tx'[r].pc = "idle"
           /\ tx[r].branch \in {"approve", "delete_story"}) =>
              C17_FrameOf(tx[r].branch, tx[r].sid, tx[r].rows # {})
    /\ \A r \in Requests :
          (tx[r].pc \in {"approve", "update", "delete_story"} /\ tx'[r] # tx[r]) =>
              UNCHANGED <<stories, tags, story_tags, session>>

\* C17: an approve or delete_story action of the admin changes only the story
\* whose id is given (approve: only its is_approved and updated_at; delete_story:
\* only that story and its story_tags rows); every other story, every tag row
\* and every session's liked set stay as they were, and an action with a
\* missing id or an id of no existing story changes no row at all
C17_AdminFrame == [][C17_Step]_vars

\* an existing story has just been approved while another story, still
\* unapproved, and a story_tags row exist
C17_Witness ==
    /\ last.op = "admin" /\ last.branch = "approve"
    /\ \E id \in DOMAIN stories :
          /\ last.id = Some(id) /\ stories[id].is_approved = 1
          /\ \E o \in DOMAIN stories \ {id} : stories[o].is_approved = 0
    /\ BagToSet(story_tags) # {}

\* ---- C19 ----
NoLikeInFlight ==
    \A r \in Requests :
        tx[r].pc \notin {"like_select", "like_update", "like_commit", "like_store"}

Likers(id) == {s \in Sessions : id \in session[s].liked_stories}

\* C19: with at most one request in flight for each session, under any
\* interleaving of submit, approve, delete and like requests, whenever no like
\* request is in flight the likes of every existing story equals the number of
\* sessions whose liked set holds the story's id
C19_LikesCountSessions ==
    NoLikeInFlight =>
        \A id \in DOMAIN stories : stories[id].likes = Cardinality(Likers(id))

\* a like has been answered and no other is in flight: both sessions like the
\* story, which has two likes, while the other story was deleted
C19_Witness ==
    /\ NoLikeInFlight
    /\ last.op = "like" /\ last.branch = "liked"
    /\ last.id[1] \in DOMAIN stories /\ stories[last.id[1]].likes = 2
    /\ Likers(last.id[1]) = Sessions
    /\ Cardinality(DOMAIN stories) = 1 /\ stories_id_seq = 2

\* ---- C20 ----
\* both requests were sent by session s for story 1, both arrived with the
\* liked set as it was before the pair, and both are answered
ConcurrentPair(s) ==
    /\ Len(call.out) = 2
    /\ \A i \in 1..2 :
          /\ call.out[i].s = s
          /\ call.out[i].pre.ids = call.in[2][s].liked_stories

\* C20 (as stated): two like requests of one session for the same approved
\* story that both read the liked set before either writes it back leave likes
\* and the liked set as they were before the pair, as the two requests run one
\* after the other do
C20_ConcurrentPairIsNeutral ==
    \A s \in Sessions :
        ConcurrentPair(s) =>
            /\ stories[1].likes = call.in[1]
            /\ session[s].liked_stories = call.in[2][s].liked_stories

\* C20 (amended): both requests of such a pair take the branch the set they read
\* selects, so the pair counts twice: a set without the id ends with the id and
\* likes + 2, a set with the id ends without it and likes - 2, floored at 0
C20_ConcurrentPairCountsTwice ==
    \A s \in Sessions :
        ConcurrentPair(s) =>
            LET before == call.in[2][s].liked_stories IN
            IF 1 \in before
            THEN /\ stories[1].likes = IF call.in[1] >= 2 THEN call.in[1] - 2 ELSE 0
                 /\ session[s].liked_stories = before \ {1}
            ELSE /\ stories[1].likes = call.in[1] + 2
                 /\ session[s].liked_stories = before \cup {1}

\* a pair of s1 has ended: both requests liked, and the story has two likes more
C20_Witness ==
    /\ ConcurrentPair("s1")
    /\ \A i \in 1..2 : call.out[i].branch = "liked"
    /\ stories[1].likes = call.in[1] + 2
    /\ session["s1"].liked_stories = {1}

\* ---- C21 ----
\* the story_tags rows of story sid, as a set of tag ids
LinksOf(st, sid) == {q[2] : q \in {w \in BagToSet(st) : w[1] = sid}}

\* the transaction of r ends in this step with an error
C21_Fails(r) ==
    /\ tx[r].pc # "idle" /\ tx'[r].pc = "idle"
    /\ last'.op = "submit" /\ last'.s = r /\ last'.branch = "rolled_back"

\* the transaction of r commits in this step
C21_Commits(r) ==
    /\ tx[r].pc = "commit" /\ tx'[r].pc = "idle"
    /\ last'.op = "submit" /\ last'.s = r /\ last'.branch = "saved"

C21_Step ==
    /\ \A r \in Requests :
          C21_Fails(r) =>
              /\ stories' = stories /\ tags' = tags /\ story_tags' = story_tags
              /\ tx[r].sid \notin DOMAIN stories'
              /\ DOMAIN tx[r].own \cap DOMAIN tags' = {}
              /\ LinksOf(story_tags', tx[r].sid) = {}
    /\ \A r \in Requests :
          C21_Commits(r) =>
              /\ DOMAIN stories' = DOMAIN stories \cup {tx[r].sid}
              /\ LinksOf(story_tags', tx[r].sid) = Range(UniqueIds(tx[r].ids))
              /\ Range(UniqueIds(tx[r].ids)) \subseteq DOMAIN tags'
    /\ (\A r \in Requests : ~C21_Commits(r)) =>
          stories' = stories /\ tags' = tags /\ story_tags' = story_tags

\* C21: submit is all-or-nothing at the database. When linking tags fails after
\* the story row was inserted (a selected id of no tag, a new name a concurrent
\* submit inserted first), the transaction is rolled back: no story row, no new
\* tag row and no story_tags row of the request is visible afterwards. A story
\* row appears only at the commit, together with every tag link its submit
\* resolved, and every story in the table has its links to existing tags
C21_SubmitAllOrNothing ==
    /\ [][C21_Step]_vars
    /\ [](\A sid \in DOMAIN stories : LinksOf(story_tags, sid) \subseteq DOMAIN tags)

\* a submit failed on a new tag name the other submit inserted first, after its
\* own story row was inserted: its story id is used up and names no story, while
\* the story of the other request is committed with its links
C21_Witness ==
    /\ last.op = "submit" /\ last.branch = "rolled_back" /\ last.arg = "unique"
    /\ last.id # None /\ last.id[1] \notin DOMAIN stories
    /\ last.id[1] <= stories_id_seq
    /\ \E sid \in DOMAIN stories : LinksOf(story_tags, sid) # {}

\* ---- C22 ----
\* the approved stories that carry tag t
ApprovedWith(t) ==
    {sid \in DOMAIN stories : stories[sid].is_approved = 1 /\ BagIn(<<sid, t>>, story_tags)}

\* C22: the tag list of the public page depends only on approved stories: a tag
\* is listed only if at least one approved story carries it, and its usage_count
\* is the number of approved stories that carry it
C22_PublicTagsOnlyApproved ==
    \A e \in fetch_tags_with_counts(stories, tags, story_tags) :
        /\ ApprovedWith(e.id) # {}
        /\ e.usage_count = Cardinality(ApprovedWith(e.id))

====
